---- MODULE Spec2Model ----
(***************************************************************************)
(* Psycho-Dice-Namic: the combination finder (dice.py), the damage         *)
(* resolver and the debate loop (game_engine.py), the player               *)
(* (archetypes.py) and the emotion hooks (emotions_runtime.py).            *)
(*                                                                         *)
(* Python's None is written NoneVal and the blank sentinel -1 is Blank.    *)
(* A Python list is a sequence, a dict with insertion order is a sequence  *)
(* of keys plus a function.                                                *)
(***************************************************************************)
EXTENDS Integers, Sequences, FiniteSets, TLC

\* ------------------------------------------------------------------ bounds
\* longest list, in any order, handed to find_combos
MaxLen == 5
\* longest list that holds a blank sentinel
MaxBlankLen == 3
\* longest ascending or descending list handed to find_combos
MaxSortedLen == 10
\* most dice an attacker / a defender brings to one calculate_damage call
MaxAttackDice == 3
MaxDefendDice == 3
\* most rounds a debate is played for (max_rounds)
MaxRounds == 2
\* most calls (on_trigger, take_damage, heal) made on the players before a debate
MaxTriggers == 2
\* the largest amount of a direct take_damage / heal call
MaxAmount == 13

\* --------------------------------------------------------------- constants
Blank == -1
NoneVal == -2
Faces == 1..6

\* ----------------------------------------------------------------- helpers
RECURSIVE SumSeq(_)
SumSeq(s) == IF s = <<>> THEN 0 ELSE Head(s) + SumSeq(Tail(s))

RECURSIVE Repeat(_, _)
Repeat(v, n) == IF n <= 0 THEN <<>> ELSE <<v>> \o Repeat(v, n - 1)

RECURSIVE CountOf(_, _)
CountOf(s, v) ==
    IF s = <<>> THEN 0
    ELSE (IF Head(s) = v THEN 1 ELSE 0) + CountOf(Tail(s), v)

SeqMember(s, v) == \E i \in 1..Len(s) : s[i] = v

\* lst[i] = x on a list: the list with item i replaced
SetItem(lst, i, x) == [k \in 1..Len(lst) |-> IF k = i THEN x ELSE lst[k]]

SetMax(S) == CHOOSE x \in S : \A y \in S : y <= x
SetMin(S) == CHOOSE x \in S : \A y \in S : x <= y

\* sorted(set): the elements of S ascending
RECURSIVE SortedSet(_)
SortedSet(S) ==
    IF S = {} THEN <<>>
    ELSE LET m == SetMin(S) IN <<m>> \o SortedSet(S \ {m})

\* list.sort() / sorted(list): ascending, duplicates kept
SortAsc(s) == SortSeq(s, LAMBDA a, b : a < b)

\* --------------------------------------------------------------- dice.py
\* Combo dataclass; damage is derived from dice in __post_init__
Combo(name, dice, echo) ==
    [name |-> name, dice |-> dice, echo_dice |-> echo, damage |-> SumSeq(dice)]

\* mutant: the filter forgets None
NonBlank_KeepsNone(dice_values) ==
    SelectSeq(dice_values, LAMBDA d : d # Blank)

\* dice_values = [d for d in dice_values if d is not None and d != -1]
NonBlank(dice_values) ==
    SelectSeq(dice_values, LAMBDA d : d # NoneVal /\ d # Blank)

\* keys of the counts dict, in insertion (first occurrence) order
RECURSIVE CountKeys(_)
CountKeys(vals) ==
    IF vals = <<>> THEN <<>>
    ELSE LET init == CountKeys(SubSeq(vals, 1, Len(vals) - 1))
             last == vals[Len(vals)]
         IN  IF SeqMember(init, last) THEN init ELSE Append(init, last)

\* mutant: the count test is off by one
RECURSIVE KindCandidatesOver_OffByOne(_, _, _, _, _)
KindCandidatesOver_OffByOne(keys, vals, n, name, echo) ==
    IF keys = <<>> THEN <<>>
    ELSE (IF CountOf(vals, Head(keys)) >= n - 1
          THEN <<Combo(name, Repeat(Head(keys), n), echo)>>
          ELSE <<>>)
         \o KindCandidatesOver_OffByOne(Tail(keys), vals, n, name, echo)

\* for value, count in counts.items(): if count >= n: append Combo(name, [value]*n, echo)
RECURSIVE KindCandidatesOver(_, _, _, _, _)
KindCandidatesOver(keys, vals, n, name, echo) ==
    IF keys = <<>> THEN <<>>
    ELSE (IF CountOf(vals, Head(keys)) >= n
          THEN <<Combo(name, Repeat(Head(keys), n), echo)>>
          ELSE <<>>)
         \o KindCandidatesOver(Tail(keys), vals, n, name, echo)

KindCandidates(vals, n, name, echo) ==
    KindCandidatesOver(CountKeys(vals), vals, n, name, echo)

\* [sorted_values[i] + j for j in range(min_len)]
Run(start, len) == [j \in 1..len |-> start + j - 1]

\* the loop of add_straights over i, from index i on
RECURSIVE StraightsFrom(_, _, _, _, _)
StraightsFrom(sorted_values, i, min_len, name, echo) ==
    IF i > Len(sorted_values) - (min_len - 1) THEN <<>>
    ELSE (IF \A j \in 0..(min_len - 1) :
                sorted_values[i + j] = sorted_values[i] + j
          THEN <<Combo(name, Run(sorted_values[i], min_len), echo)>>
          ELSE <<>>)
         \o StraightsFrom(sorted_values, i + 1, min_len, name, echo)

\* mutant: the length guard is strict
add_straights_StrictLen(vals, min_len, name, echo) ==
    IF Len(vals) > min_len
    THEN StraightsFrom(SortedSet({vals[i] : i \in 1..Len(vals)}), 1, min_len, name, echo)
    ELSE <<>>

add_straights(vals, min_len, name, echo) ==
    IF Len(vals) >= min_len
    THEN StraightsFrom(SortedSet({vals[i] : i \in 1..Len(vals)}), 1, min_len, name, echo)
    ELSE <<>>

\* values of the counts dict with count >= n, in dict order
ValuesWithCount(vals, n) ==
    SelectSeq(CountKeys(vals), LAMBDA v : CountOf(vals, v) >= n)

\* mutant: the two triplets are taken in dict order, without sorted(...)
TwoTriplets_DictOrder(vals) ==
    LET trip_values == ValuesWithCount(vals, 3)
    IN  IF Len(trip_values) >= 2
        THEN <<Combo("Surprising", Repeat(trip_values[1], 3) \o Repeat(trip_values[2], 3), 1)>>
        ELSE <<>>

\* sorted(trip_values, reverse=True)[:2]
TwoTriplets(vals) ==
    LET trip_values == ValuesWithCount(vals, 3)
        trip_set == {trip_values[i] : i \in 1..Len(trip_values)}
    IN  IF Len(trip_values) >= 2
        THEN LET hi == SetMax(trip_set)
                 lo == SetMax(trip_set \ {hi})
             IN  <<Combo("Surprising", Repeat(hi, 3) \o Repeat(lo, 3), 1)>>
        ELSE <<>>

RECURSIVE QuadPairInner(_, _)
QuadPairInner(qv, pair_values) ==
    IF pair_values = <<>> THEN <<>>
    ELSE (IF Head(pair_values) # qv
          THEN <<Combo("Surprising", Repeat(qv, 4) \o Repeat(Head(pair_values), 2), 1)>>
          ELSE <<>>)
         \o QuadPairInner(qv, Tail(pair_values))

RECURSIVE QuadPairOuter(_, _)
QuadPairOuter(quad_values, pair_values) ==
    IF quad_values = <<>> THEN <<>>
    ELSE QuadPairInner(Head(quad_values), pair_values)
         \o QuadPairOuter(Tail(quad_values), pair_values)

QuadPair(vals) == QuadPairOuter(ValuesWithCount(vals, 4), ValuesWithCount(vals, 2))

\* candidates.append(Combo("Solid", [max(dice_values)], echo_dice=0))
SingleHighest(vals) ==
    <<Combo("Solid", <<SetMax({vals[i] : i \in 1..Len(vals)})>>, 0)>>

\* the candidates list of find_combos, in generation order (vals non-empty)
Candidates(vals) ==
    KindCandidates(vals, 6, "Astonishing", 4)
    \o add_straights(vals, 6, "Surprising", 1)
    \o KindCandidates(vals, 5, "Distressing", 3)
    \o add_straights(vals, 5, "Solid", 0)
    \o TwoTriplets(vals)
    \o QuadPair(vals)
    \o KindCandidates(vals, 4, "Shocking", 2)
    \o add_straights(vals, 4, "Solid", 0)
    \o add_straights(vals, 3, "Solid", 0)
    \o KindCandidates(vals, 3, "Surprising", 1)
    \o KindCandidates(vals, 2, "Solid", 0)
    \o SingleHighest(vals)

\* def score(c): (len(c.dice) + c.echo_dice, len(c.dice), c.damage)
score(c) == <<Len(c.dice) + c.echo_dice, Len(c.dice), c.damage>>

\* Python tuple comparison a > b on triples
TupleGreater(a, b) ==
    \/ a[1] > b[1]
    \/ a[1] = b[1] /\ a[2] > b[2]
    \/ a[1] = b[1] /\ a[2] = b[2] /\ a[3] > b[3]

\* mutant: on equal keys the later candidate wins
RECURSIVE MaxByScoreFrom_LastWins(_, _, _)
MaxByScoreFrom_LastWins(cands, i, best) ==
    IF i > Len(cands) THEN best
    ELSE MaxByScoreFrom_LastWins(cands, i + 1,
            IF ~TupleGreater(score(best), score(cands[i])) THEN cands[i] ELSE best)

\* max(candidates, key=score): the first element with the greatest key
RECURSIVE MaxByScoreFrom(_, _, _)
MaxByScoreFrom(cands, i, best) ==
    IF i > Len(cands) THEN best
    ELSE MaxByScoreFrom(cands, i + 1,
            IF TupleGreater(score(cands[i]), score(best)) THEN cands[i] ELSE best)

MaxByScore(cands) == MaxByScoreFrom(cands, 2, cands[1])

\* ComboDetector.find_combos: [] or [best]
find_combos(dice_values) ==
    LET vals == NonBlank(dice_values)
    IN  IF vals = <<>> THEN <<>>
        ELSE <<MaxByScore(Candidates(vals))>>

\* --------------------------------------------------------- archetypes.py
MAX_HEALTH == 12

\* mutant: the damage is not limited by the health left
take_damage_Unclamped(health, amount) == health - amount

\* Player.take_damage: the health after the call
take_damage(health, amount) ==
    LET actual_damage == IF amount < health THEN amount ELSE health
    IN  health - actual_damage

\* Player.heal: the health after the call
heal(health, amount) ==
    LET actual_healing ==
            IF amount < MAX_HEALTH - health THEN amount ELSE MAX_HEALTH - health
    IN  health + actual_healing

\* -------------------------------------------------------- game_engine.py
\* mutant: only the first insult's dice are collected
CollectDice_FirstOnly(insults) ==
    IF insults = <<>> THEN <<>> ELSE Head(insults).dice

\* for insult in insults: dice.extend(insult.dice)
RECURSIVE CollectDice(_)
CollectDice(insults) ==
    IF insults = <<>> THEN <<>>
    ELSE Head(insults).dice \o CollectDice(Tail(insults))

\* mutant: the skip loop is missing, any defender blocks
AdvanceDefender_NoSkip(defending_dice, j, attack_die) == j

\* inner while of calculate_damage: advance j past defenders below attack_die
RECURSIVE AdvanceDefender(_, _, _)
AdvanceDefender(defending_dice, j, attack_die) ==
    IF j <= Len(defending_dice) /\ defending_dice[j] < attack_die
    THEN AdvanceDefender(defending_dice, j + 1, attack_die)
    ELSE j

\* mutant: the blocked / unblocked branches are swapped
RECURSIVE Sweep_Swapped(_, _, _, _, _)
Sweep_Swapped(attacking_dice, defending_dice, i, j, unblocked) ==
    IF i > Len(attacking_dice) THEN unblocked
    ELSE LET attack_die == attacking_dice[i]
             j2 == AdvanceDefender(defending_dice, j, attack_die)
         IN  IF j2 <= Len(defending_dice)
             THEN Sweep_Swapped(attacking_dice, defending_dice, i + 1, j2 + 1,
                                unblocked + attack_die)
             ELSE Sweep_Swapped(attacking_dice, defending_dice, i + 1, j2, unblocked)

\* outer while of calculate_damage (indices are 1-based here)
RECURSIVE Sweep(_, _, _, _, _)
Sweep(attacking_dice, defending_dice, i, j, unblocked) ==
    IF i > Len(attacking_dice) THEN unblocked
    ELSE LET attack_die == attacking_dice[i]
             j2 == AdvanceDefender(defending_dice, j, attack_die)
         IN  IF j2 <= Len(defending_dice)
             THEN Sweep(attacking_dice, defending_dice, i + 1, j2 + 1, unblocked)
             ELSE Sweep(attacking_dice, defending_dice, i + 1, j2, unblocked + attack_die)

\* GameEngine.calculate_damage
calculate_damage(attacker_insults, defender_insults) ==
    LET attacking_dice == SortAsc(CollectDice(attacker_insults))
        defending_dice == SortAsc(CollectDice(defender_insults))
    IN  Sweep(attacking_dice, defending_dice, 1, 1, 0)

\* mutant: the dice lists of the insults are sorted in place
calculate_damage_call_SortsInsults(attacker_insults, defender_insults) ==
    [unblocked |-> calculate_damage(attacker_insults, defender_insults),
     attacker_insults |-> [k \in 1..Len(attacker_insults) |->
                              [attacker_insults[k] EXCEPT !.dice = SortAsc(@)]],
     defender_insults |-> [k \in 1..Len(defender_insults) |->
                              [defender_insults[k] EXCEPT !.dice = SortAsc(@)]]]

\* a call of calculate_damage: the value returned and the two argument lists
\* as the call leaves them. extend() copies the values of each insult.dice
\* into the local lists attacking_dice and defending_dice, sort() and the
\* sweep work on those; no statement writes to an insult
calculate_damage_call(attacker_insults, defender_insults) ==
    [unblocked |-> calculate_damage(attacker_insults, defender_insults),
     attacker_insults |-> attacker_insults,
     defender_insults |-> defender_insults]

\* ------------------------------------------------- dice.py: the dice
\* the faces list of each Dice subclass, as the set random.choice draws from
DiceFaces(kind) ==
    CASE kind \in {"Normal", "Penance", "Ridicule", "Nausea"} -> {1, 2, 3, 4, 5, 6}
      [] kind = "Bliss" -> {2, 3, 4, 5, 6}
      [] kind = "Comedown" -> {2, 4, 6}
      [] kind = "HighMinded" -> {1, 2, 3, 4, 6}
      [] kind \in {"Spite", "Inebriation"} -> {NoneVal, 1, 6}
      [] kind \in {"Grounded", "Nostalgia"} -> {NoneVal, 1, 2, 3, 4}
      [] kind = "Acedic" -> {NoneVal, 1, 2, 3, 6}
      [] kind = "Pilfer" -> {1, 2, 3, 6}
      [] kind \in {"Catastrophize", "Aporic"} -> {1, 3, 4, 6}
      [] kind \in {"Choleric", "Melancholic", "Phlegmatic", "Sanguine"} -> {2, 3, 4, 5, 6}
      [] kind = "Apathetic" -> {NoneVal, 6}
      [] kind = "Abyssal" -> {NoneVal}
      [] kind = "Blank" -> {Blank}

\* Dice.can_roll: only BlankDice overrides it
can_roll(kind) == kind # "Blank"

\* the effects dict; a key not in the dict reads as 0 through .get(k, 0)
NoEffects ==
    [heal |-> 0, damage |-> 0, forgiveness_tokens |-> 0, opp_damage |-> 0,
     self_regret |-> 0, opp_neurosis |-> 0, opp_regret |-> 0, pilfer_six |-> 0,
     force_fumble |-> 0, ridicule_six |-> 0]

\* Dice.special_effect of each subclass; regret is player.regret_tokens
special_effect(kind, value, regret) ==
    CASE kind = "Bliss" /\ value = 6 -> [NoEffects EXCEPT !.heal = 1]
      [] kind = "Comedown" /\ value = 6 -> [NoEffects EXCEPT !.damage = 1]
      [] kind = "Spite" /\ value = 6 -> [NoEffects EXCEPT !.opp_damage = 1]
      [] kind = "Inebriation" /\ value = 6 ->
            [NoEffects EXCEPT !.self_regret = 1, !.opp_neurosis = 1]
      [] kind = "Acedic" /\ value = 6 ->
            [NoEffects EXCEPT !.heal = 1, !.self_regret = IF regret = 0 THEN 1 ELSE 0]
      [] kind = "Pilfer" /\ value = 6 -> [NoEffects EXCEPT !.pilfer_six = 1]
      [] kind \in {"Catastrophize", "Aporic"} /\ value = 1 ->
            [NoEffects EXCEPT !.force_fumble = 1]
      [] kind \in {"Ridicule", "Nausea"} /\ value = 6 ->
            [NoEffects EXCEPT !.ridicule_six = 1]
      [] OTHER -> NoEffects

\* effects[k] = effects.get(k, 0) + v for every key
AddEffects(a, b) == [k \in DOMAIN a |-> a[k] + b[k]]

\* ------------------------------------------- archetypes.py: the player
\* Player(...) with the dataclass defaults and __post_init__; counters holds
\* the _counters of the player's emotion objects, health_trace the health
\* after each take_damage / heal call of the step in progress
NewPlayer(dice, emotions) ==
    [health |-> MAX_HEALTH,
     forgiveness_tokens |-> 0, neurosis_tokens |-> 0, regret_tokens |-> 0,
     eureka_tokens |-> 0, breakthrough_tokens |-> 0, rehash_tokens |-> 0,
     fumble_shields |-> 0,
     bust_protection |-> FALSE, penance_double_active |-> FALSE,
     pending_pilfer_next_round |-> FALSE,
     pending_echo_values |-> <<>>,
     totems |-> {}, placebo_tokens |-> 0,
     emotions |-> emotions, counters |-> [i \in 1..Len(emotions) |-> 0],
     win_counter |-> 0, force_commit |-> FALSE,
     dice |-> dice,
     health_trace |-> {}]

\* player.take_damage(amount) on the Player record
PTakeDamage(P, amount) ==
    LET h == take_damage(P.health, amount)
    IN  [P EXCEPT !.health = h, !.health_trace = @ \cup {h}]

\* player.heal(amount) on the Player record
PHeal(P, amount) ==
    LET h == heal(P.health, amount)
    IN  [P EXCEPT !.health = h, !.health_trace = @ \cup {h}]

\* Player.add_neurosis_tokens
add_neurosis_tokens(P, amount) ==
    IF amount > 0 THEN [P EXCEPT !.neurosis_tokens = @ + amount] ELSE P

\* Player.add_regret_tokens
add_regret_tokens(P, amount) ==
    IF amount > 0 THEN [P EXCEPT !.regret_tokens = @ + amount] ELSE P

\* the loop of Archetype.apply_special_effects over the dice results, from i on
RECURSIVE SpecialEffectsFrom(_, _, _, _, _)
SpecialEffectsFrom(P, kinds, dice_results, i, acc) ==
    IF i > Len(dice_results) THEN acc
    ELSE SpecialEffectsFrom(P, kinds, dice_results, i + 1,
            IF i <= Len(P.dice)
            THEN AddEffects(acc, special_effect(kinds[P.dice[i]], dice_results[i],
                                                P.regret_tokens))
            ELSE acc)

\* Archetype.apply_special_effects, with the override of Euphoria
apply_special_effects(arch, P, kinds, dice_results) ==
    LET Override(base) ==
            IF arch = "Euphoria" /\ base.heal > 0
            THEN [base EXCEPT !.forgiveness_tokens = @ + base.heal, !.heal = 0]
            ELSE base
    IN  Override(SpecialEffectsFrom(P, kinds, dice_results, 1, NoEffects))

\* ------------------------------------------------- emotions_runtime.py
\* EmotionContext.deal_self / deal_opponent / heal_self; pl is the pair of
\* players, s the index of ctx.self, 3 - s the index of ctx.opponent
deal_self(pl, s, dmg) ==
    IF dmg > 0 THEN [pl EXCEPT ![s] = PTakeDamage(@, dmg)] ELSE pl
deal_opponent(pl, s, dmg) ==
    IF dmg > 0 THEN [pl EXCEPT ![3 - s] = PTakeDamage(@, dmg)] ELSE pl
heal_self(pl, s, amt) ==
    IF amt > 0 THEN [pl EXCEPT ![s] = PHeal(@, amt)] ELSE pl

\* the attribute a token name selects in add_token / add_token_opponent
TokenField(token) ==
    CASE token = "eureka" -> "eureka_tokens"
      [] token = "breakthrough" -> "breakthrough_tokens"
      [] token = "rehash" -> "rehash_tokens"
      [] token = "forgiveness" -> "forgiveness_tokens"
      [] token = "neurosis" -> "neurosis_tokens"
      [] token = "regret" -> "regret_tokens"
      [] token = "fumble-shield" -> "fumble_shields"

\* EmotionContext.add_token / add_token_opponent
add_token(pl, s, token, amt) ==
    [pl EXCEPT ![s][TokenField(token)] = @ + amt]
add_token_opponent(pl, s, token, amt) ==
    [pl EXCEPT ![3 - s][TokenField(token)] = @ + amt]

\* self.totems[key] = payload
set_totem(pl, s, key) == [pl EXCEPT ![s].totems = @ \cup {key}]

\* MarxistAccelerationism.on_trigger
MarxistTrigger(pl, s) ==
    LET h_self == pl[s].health
        h_opp == pl[3 - s].health
        hi == IF h_self > h_opp THEN h_self ELSE h_opp
        lo == IF h_self < h_opp THEN h_self ELSE h_opp
        a == IF h_self = hi THEN deal_self(pl, s, 2) ELSE pl
        b == IF h_opp = hi THEN deal_opponent(a, s, 2) ELSE a
        c == IF h_self = lo THEN heal_self(b, s, 2) ELSE b
    IN  IF h_opp = lo THEN [c EXCEPT ![3 - s] = PHeal(@, 2)] ELSE c

\* on_trigger of the emotion at place k of player s's emotions list; an
\* emotion without an override (Catalepsy, CognitiveDissonance, a plain
\* Emotion) does nothing. The manual trigger passes no pool in ctx.data.
on_trigger(pl, s, k) ==
    LET e == pl[s].emotions[k]
        o == 3 - s
    IN  CASE e = "Foreboding" -> add_token(pl, s, "fumble-shield", 1)
          [] e = "Tantrum" -> deal_opponent(deal_self(pl, s, 1), s, 1)
          [] e = "PersecutoryDelusions" ->
                add_token_opponent(add_token(pl, s, "regret", 1), s, "regret", 2)
          [] e = "Absolution" ->
                IF pl[s].neurosis_tokens > 0
                THEN add_token([pl EXCEPT ![s].neurosis_tokens = @ - 1], s, "forgiveness", 1)
                ELSE IF pl[o].neurosis_tokens > 0
                THEN add_token([pl EXCEPT ![o].neurosis_tokens = @ - 1], s, "forgiveness", 2)
                ELSE pl
          [] e = "Outburst" ->
                IF pl[s].counters[k] + 1 >= 3
                THEN deal_opponent([pl EXCEPT ![s].counters[k] = 0], s, 3)
                ELSE [pl EXCEPT ![s].counters[k] = @ + 1]
          [] e = "Chivalry" ->
                heal_self(add_token([pl EXCEPT ![s].force_commit = TRUE], s, "rehash", 1), s, 1)
          [] e = "MarxistAccelerationism" -> MarxistTrigger(pl, s)
          [] e = "MasochisticRapture" ->
                LET d == deal_self(pl, s, 2)
                IN  IF d[s].counters[k] + 1 >= 6
                    THEN [d EXCEPT ![s].counters[k] = 0, ![s].win_counter = @ + 1]
                    ELSE [d EXCEPT ![s].counters[k] = @ + 1]
          [] e = "Schadenfreude" -> add_token(pl, s, "neurosis", 1)
          [] e = "OppositionalDefiance" ->
                set_totem(add_token(pl, s, "neurosis", 1), s, "deflect_one_damage")
          [] e = "Codependence" ->
                set_totem(add_token(pl, s, "neurosis", 1), s, "codependence_active")
          [] e = "Hypervigilance" ->
                set_totem(add_token(pl, s, "neurosis", 2), s, "hypervigilance")
          [] e = "UndueCertainty" ->
                set_totem(add_token(pl, s, "regret", 2), s, "set_aside_limit")
          [] e = "SmolderingResentment" -> set_totem(pl, s, "smoldering")
          [] e = "PathologicalEnvy" ->
                IF pl[o].eureka_tokens > pl[s].eureka_tokens /\ pl[o].eureka_tokens > 0
                THEN add_token([pl EXCEPT ![o].eureka_tokens = @ - 1], s, "eureka", 1)
                ELSE add_token(pl, s, "neurosis", 1)
          [] e = "IntrusiveThought" -> set_totem(pl, s, "intrusive_reroll")
          [] e = "Habituation" ->
                IF pl[s].eureka_tokens > 0
                THEN [pl EXCEPT ![s].eureka_tokens = @ - 1]
                ELSE add_token(pl, s, "rehash", 1)
          [] e = "Overstimulated" ->
                IF pl[s].rehash_tokens > 0
                THEN LET r == [pl EXCEPT ![s].rehash_tokens = @ - 1]
                     IN  IF r[s].neurosis_tokens > 0
                         THEN [r EXCEPT ![s].neurosis_tokens = @ - 1]
                         ELSE IF r[s].regret_tokens > 0
                         THEN [r EXCEPT ![s].regret_tokens = @ - 1]
                         ELSE r
                ELSE pl
          [] e = "Projection" ->
                IF pl[s].neurosis_tokens > 0
                THEN add_token_opponent([pl EXCEPT ![s].neurosis_tokens = @ - 1], s, "neurosis", 1)
                ELSE IF pl[s].regret_tokens > 0
                THEN add_token_opponent([pl EXCEPT ![s].regret_tokens = @ - 1], s, "regret", 1)
                ELSE IF pl[s].forgiveness_tokens > 0
                THEN add_token_opponent([pl EXCEPT ![s].forgiveness_tokens = @ - 1], s, "forgiveness", 1)
                ELSE pl
          [] e = "PlaceboEffect" ->
                [pl EXCEPT ![s].placebo_tokens = @ + pl[s].neurosis_tokens,
                           ![s].neurosis_tokens = 0,
                           ![s].totems = @ \cup {"placebo_tokens"}]
          [] e = "SuperegoShield" ->
                set_totem(add_token(pl, s, "forgiveness", 1), s, "superego_shield")
          [] OTHER -> pl

\* on_fumble of the emotion at place k (only Schadenfreude overrides it)
on_fumble(pl, s, k, opponent_fumbled) ==
    IF pl[s].emotions[k] = "Schadenfreude" /\ opponent_fumbled
    THEN add_token(pl, s, "eureka", 1)
    ELSE pl

\* on_debate_end of the emotion at place k (only PlaceboEffect overrides it)
on_debate_end(pl, s, k) ==
    IF pl[s].emotions[k] = "PlaceboEffect"
    THEN [pl EXCEPT ![s].neurosis_tokens = @ + pl[s].placebo_tokens,
                    ![s].placebo_tokens = 0,
                    ![s].totems = @ \ {"placebo_tokens"}]
    ELSE pl

\* an entry of player.emotions whose hook methods raise an Exception when
\* they are called (an object that is not an Emotion, or a subclass whose
\* hook fails at once)
RaisingEmotion == "RaisingEmotion"
HookRaises(e) == e = RaisingEmotion

\* on_debate_start of the emotion at place k (no emotion overrides it)
on_debate_start(pl, s, k) == pl

\* what a statement leaves: the state, and whether an exception left it
Normal(st) == [uncaught |-> FALSE, state |-> st]

\* mutant: the hook is called without the try statement
try_hook_NoExcept(raises, before, after) ==
    [uncaught |-> raises, state |-> IF raises THEN before ELSE after]

\* try: emo.<hook>(ctx) / except Exception: pass
try_hook(raises, before, after) ==
    Normal(IF raises THEN before ELSE after)

\* for emo in player.emotions: try: emo.<hook>(ctx) ..., from place k on;
\* r is what the statements before it left
RECURSIVE DebateStartHooksFrom(_, _, _)
DebateStartHooksFrom(r, s, k) ==
    IF r.uncaught \/ k > Len(r.state[s].emotions) THEN r
    ELSE DebateStartHooksFrom(try_hook(HookRaises(r.state[s].emotions[k]), r.state,
                                       on_debate_start(r.state, s, k)),
                              s, k + 1)

RECURSIVE FumbleHooksFrom(_, _, _, _)
FumbleHooksFrom(r, s, k, opponent_fumbled) ==
    IF r.uncaught \/ k > Len(r.state[s].emotions) THEN r
    ELSE FumbleHooksFrom(try_hook(HookRaises(r.state[s].emotions[k]), r.state,
                                  on_fumble(r.state, s, k, opponent_fumbled)),
                         s, k + 1, opponent_fumbled)

RECURSIVE DebateEndHooksFrom(_, _, _)
DebateEndHooksFrom(r, s, k) ==
    IF r.uncaught \/ k > Len(r.state[s].emotions) THEN r
    ELSE DebateEndHooksFrom(try_hook(HookRaises(r.state[s].emotions[k]), r.state,
                                     on_debate_end(r.state, s, k)),
                            s, k + 1)

\* ------------------------------------ emotions_runtime.py: after roll
PoolValues(live_pool) == [i \in 1..Len(live_pool) |-> live_pool[i][1]]

\* CognitiveDissonance.on_after_roll.score_for
score_for(vals) ==
    LET ScoreOf(combos) == IF combos = <<>> THEN <<0, 0, 0>> ELSE score(combos[1])
    IN  ScoreOf(find_combos(vals))

\* the loop of CognitiveDissonance.on_after_roll over the pool, from i on;
\* best is (best_score, index or 0, new value)
RECURSIVE BestFlipFrom(_, _, _)
BestFlipFrom(base_vals, i, best) ==
    IF i > Len(base_vals) THEN best
    ELSE LET v == base_vals[i]
             Better(cand_score) ==
                IF v \in 1..6 /\ TupleGreater(cand_score, best[1])
                THEN <<cand_score, i, 7 - v>>
                ELSE best
         IN  BestFlipFrom(base_vals, i + 1,
                          Better(score_for(SetItem(base_vals, i, 7 - v))))

\* CognitiveDissonance.on_after_roll: the pool after the hook
CognitiveDissonanceAfterRoll(live_pool) ==
    LET base_vals == PoolValues(live_pool)
        Flip(best) ==
            IF best[2] # 0
            THEN SetItem(live_pool, best[2], <<best[3], live_pool[best[2]][2]>>)
            ELSE live_pool
    IN  Flip(BestFlipFrom(base_vals, 1, <<score_for(base_vals), 0, 0>>))

\* IntrusiveThought.on_after_roll: nv[i] is the value randint(1, 6) gives
\* for pool entry i
IntrusivePool(live_pool, nv) ==
    [i \in 1..Len(live_pool) |->
        IF live_pool[i][1] \in 1..6 THEN <<nv[i], live_pool[i][2]>> ELSE live_pool[i]]
IntrusiveOnes(live_pool, nv) ==
    Cardinality({i \in 1..Len(live_pool) : live_pool[i][1] \in 1..6 /\ nv[i] = 1})

\* on_after_roll of the emotion at place k, on <<players, pool of s>>
on_after_roll(pp, s, k, nv) ==
    LET pl == pp[1]
        live_pool == pp[2]
        e == pl[s].emotions[k]
    IN  CASE e = "CognitiveDissonance" -> <<pl, CognitiveDissonanceAfterRoll(live_pool)>>
          [] e = "IntrusiveThought" /\ "intrusive_reroll" \in pl[s].totems ->
                <<[pl EXCEPT ![s].neurosis_tokens = @ + IntrusiveOnes(live_pool, nv),
                             ![s].totems = @ \ {"intrusive_reroll"}],
                  IntrusivePool(live_pool, nv)>>
          [] OTHER -> pp

\* an entry of player.emotions given by the caller of play_debate: a subclass
\* of Emotion whose on_after_roll calls ctx.deal_self(1) and then raises an
\* Exception (its other hooks are the inherited ones)
HalfDoneEmotion == "HalfDoneEmotion"
AfterRollRaises(e) == HookRaises(e) \/ e = HalfDoneEmotion

\* what the on_after_roll hook at place k has done to <<players, pool of s>>
\* when its exception reaches the except clause
AfterRollAtRaise(pp, s, k) ==
    IF pp[1][s].emotions[k] = HalfDoneEmotion THEN <<deal_self(pp[1], s, 1), pp[2]>> ELSE pp

\* r.state is <<players, pool of s>>
RECURSIVE AfterRollHooksFrom(_, _, _, _)
AfterRollHooksFrom(r, s, k, nv) ==
    IF r.uncaught \/ k > Len(r.state[1][s].emotions) THEN r
    ELSE AfterRollHooksFrom(try_hook(AfterRollRaises(r.state[1][s].emotions[k]),
                                     AfterRollAtRaise(r.state, s, k),
                                     on_after_roll(r.state, s, k, nv)),
                            s, k + 1, nv)

\* ------------------------------------------ game_engine.py: the round
\* GameEngine.roll_dice: vals is a possible result for the player's dice
ValidRoll(P, kinds, vals) ==
    /\ DOMAIN vals = 1..Len(P.dice)
    /\ \A i \in 1..Len(P.dice) :
          IF can_roll(kinds[P.dice[i]])
          THEN vals[i] \in DiceFaces(kinds[P.dice[i]])
          ELSE vals[i] = Blank

\* Dice.roll sets last_value of every die that can roll
RolledLastValues(P, kinds, lastv, vals) ==
    [d \in DOMAIN lastv |->
        IF \E i \in 1..Len(P.dice) : P.dice[i] = d /\ can_roll(kinds[d])
        THEN vals[CHOOSE i \in 1..Len(P.dice) : P.dice[i] = d]
        ELSE lastv[d]]

\* mutant: the echoes are injected but the pending list is not cleared
roll_live_pool_KeepsEchoes(P, arch, kinds, vals) ==
    LET live_pool == [i \in 1..Len(vals) |-> <<vals[i], P.dice[i]>>]
        Healed(p, n) == IF n > 0 THEN PHeal(p, n) ELSE p
        Damaged(p, n) == IF n > 0 THEN PTakeDamage(p, n) ELSE p
        Forgiven(p, n) == IF n > 0 THEN [p EXCEPT !.forgiveness_tokens = @ + n] ELSE p
        echoes == [i \in 1..Len(P.pending_echo_values) |-> <<P.pending_echo_values[i], 0>>]
        Rolled(round_effects) ==
            [player |-> Forgiven(Damaged(Healed(P, round_effects.heal),
                                         round_effects.damage),
                                 round_effects.forgiveness_tokens),
             live_pool |-> live_pool \o echoes,
             round_effects |-> round_effects]
    IN  Rolled(apply_special_effects(arch, P, kinds, vals))

\* GameEngine._roll_live_pool after the roll: (player, live_pool, round_effects)
roll_live_pool(P, arch, kinds, vals) ==
    LET live_pool == [i \in 1..Len(vals) |-> <<vals[i], P.dice[i]>>]
        Healed(p, n) == IF n > 0 THEN PHeal(p, n) ELSE p
        Damaged(p, n) == IF n > 0 THEN PTakeDamage(p, n) ELSE p
        Forgiven(p, n) == IF n > 0 THEN [p EXCEPT !.forgiveness_tokens = @ + n] ELSE p
        echoes == [i \in 1..Len(P.pending_echo_values) |-> <<P.pending_echo_values[i], 0>>]
        Rolled(round_effects) ==
            [player |-> [Forgiven(Damaged(Healed(P, round_effects.heal),
                                          round_effects.damage),
                                  round_effects.forgiveness_tokens)
                            EXCEPT !.pending_echo_values = <<>>],
             live_pool |-> live_pool \o echoes,
             round_effects |-> round_effects]
    IN  Rolled(apply_special_effects(arch, P, kinds, vals))

RemoveAt(seq, i) == SubSeq(seq, 1, i - 1) \o SubSeq(seq, i + 1, Len(seq))

\* mutant: the search compares the die object with the value and finds no entry
FirstPoolIndex_ComparesSource(live_pool, die_value) == 0

\* mutant: the search takes the last entry with the value
FirstPoolIndex_Last(live_pool, die_value) ==
    IF \E i \in 1..Len(live_pool) : live_pool[i][1] = die_value
    THEN SetMax({i \in 1..Len(live_pool) : live_pool[i][1] = die_value})
    ELSE 0

\* next((i for i, (v, dobj) in enumerate(live_pool) if v == die_value), None); 0 is None
FirstPoolIndex(live_pool, die_value) ==
    IF \E i \in 1..Len(live_pool) : live_pool[i][1] = die_value
    THEN SetMin({i \in 1..Len(live_pool) : live_pool[i][1] = die_value})
    ELSE 0

\* mutant: the value stays in live_dice
RemoveValue_Keeps(live_dice, die_value) == live_dice

\* if die_value in live_dice: live_dice.remove(die_value)
RemoveValue(live_dice, die_value) ==
    IF SeqMember(live_dice, die_value)
    THEN RemoveAt(live_dice, SetMin({i \in 1..Len(live_dice) : live_dice[i] = die_value}))
    ELSE live_dice

\* for die_value in best_combo.dice: pop it from the pool, from place k on
RECURSIVE TakeDice(_, _, _)
TakeDice(st, dice, k) ==
    IF k > Len(dice) THEN st
    ELSE LET idx == FirstPoolIndex(st.live_pool, dice[k])
         IN  TakeDice(
                IF idx # 0
                THEN [live_pool |-> RemoveAt(st.live_pool, idx),
                      used_sources |-> Append(st.used_sources, st.live_pool[idx][2]),
                      live_dice |-> RemoveValue(st.live_dice, dice[k])]
                ELSE st,
                dice, k + 1)

\* a used source of the given class (0 is None and has no class)
AnySource(used_sources, kinds, K) ==
    \E i \in 1..Len(used_sources) : used_sources[i] # 0 /\ kinds[used_sources[i]] \in K
\* ... whose last_value is one of V
AnySourceWith(used_sources, kinds, lastv, K, V) ==
    \E i \in 1..Len(used_sources) :
        /\ used_sources[i] # 0
        /\ kinds[used_sources[i]] \in K
        /\ lastv[used_sources[i]] \in V

\* mutant: the dice list is replaced and the damage is not computed again
WithDice_KeepsDamage(combo, dice) == [combo EXCEPT !.dice = dice]

WithDice(combo, dice) == [combo EXCEPT !.dice = dice, !.damage = SumSeq(dice)]

\* Nostalgia: the echo values staged by the used sources, in order
RECURSIVE NostalgiaEchoes(_, _, _, _, _)
NostalgiaEchoes(used_sources, kinds, lastv, dice, i) ==
    IF i > Len(used_sources) THEN <<>>
    ELSE (IF used_sources[i] # 0 /\ kinds[used_sources[i]] = "Nostalgia"
          THEN <<IF i <= Len(dice) THEN dice[i] ELSE lastv[used_sources[i]]>>
          ELSE <<>>)
         \o NostalgiaEchoes(used_sources, kinds, lastv, dice, i + 1)

\* the bank-time effects of one banked combination
BankTimeEffects(best_combo, used_sources, P, kinds, lastv, used_abyssal, special_effects) ==
    LET p1 == IF AnySourceWith(used_sources, kinds, lastv,
                               {"Catastrophize", "Aporic"}, {6})
              THEN [P EXCEPT !.bust_protection = TRUE] ELSE P
        d1 == IF /\ AnySourceWith(used_sources, kinds, lastv, {"HighMinded"}, {6})
                 /\ Len(best_combo.dice) >= 1
              THEN Append(best_combo.dice, best_combo.dice[Len(best_combo.dice)])
              ELSE best_combo.dice
        d2 == IF /\ Len(d1) = 2
                 /\ d1[1] = d1[2]
                 /\ AnySource(used_sources, kinds, {"Grounded"})
              THEN Append(d1, 1) ELSE d1
        p2 == IF AnySourceWith(used_sources, kinds, lastv, {"Penance"}, {v \in Faces : v >= 4})
              THEN [p1 EXCEPT !.penance_double_active = TRUE] ELSE p1
        apathetic == AnySource(used_sources, kinds, {"Apathetic"})
        p3 == IF apathetic THEN PHeal(p2, 2) ELSE p2
        healed == p3.health - p2.health
        abyssal == /\ ~used_abyssal
                   /\ \E i \in 1..Len(P.dice) : kinds[P.dice[i]] = "Abyssal"
                   /\ d2 # <<>>
        d3 == IF abyssal THEN Append(d2, SetMin({d2[i] : i \in 1..Len(d2)})) ELSE d2
        p4 == [p3 EXCEPT !.pending_echo_values =
                            @ \o NostalgiaEchoes(used_sources, kinds, lastv, d3, 1)]
    IN  [combo |-> WithDice(best_combo, d3),
         player |-> p4,
         used_abyssal |-> used_abyssal \/ abyssal,
         special_effects |-> [special_effects EXCEPT !.heal = @ + healed]]

\* the banking loop of _bank_from_live_pool; bs holds its local variables,
\* bank_trace the combination chosen by each pass of the loop (before the
\* bank-time effects) with its used_sources and the pool values before and
\* after its removal
RECURSIVE BankLoop(_, _, _)
BankLoop(bs, kinds, lastv) ==
    LET Continue(next) ==
            IF Len(next.insults) >= 2 \/ Len(next.live_dice) < 4
            THEN next
            ELSE BankLoop(next, kinds, lastv)
        Banked(best_combo, taken, eff) ==
            [live_pool |-> taken.live_pool,
             live_dice |-> taken.live_dice,
             insults |-> Append(bs.insults, eff.combo),
             insult_sources |-> Append(bs.insult_sources, taken.used_sources),
             player |-> eff.player,
             used_abyssal |-> eff.used_abyssal,
             special_effects |-> eff.special_effects,
             bank_trace |-> Append(bs.bank_trace,
                                   [chosen |-> best_combo.dice,
                                    used_sources |-> taken.used_sources,
                                    pool_before |-> PoolValues(bs.live_pool),
                                    pool_after |-> PoolValues(taken.live_pool),
                                    dice_before |-> bs.live_dice,
                                    dice_after |-> taken.live_dice])]
        Effects(best_combo, taken) ==
            Banked(best_combo, taken, BankTimeEffects(best_combo, taken.used_sources, bs.player,
                                          kinds, lastv, bs.used_abyssal, bs.special_effects))
        Take(best_combo) ==
            Effects(best_combo, TakeDice([live_pool |-> bs.live_pool,
                                          live_dice |-> bs.live_dice,
                                          used_sources |-> <<>>], best_combo.dice, 1))
        Pass(possible_combos) ==
            IF possible_combos = <<>> THEN bs ELSE Continue(Take(possible_combos[1]))
    IN  Pass(find_combos(bs.live_dice))

\* the humor bucket the color of a die selects (red, green, gray, yellow)
HumorBucket(kind) ==
    CASE kind = "Sanguine" -> "sanguine"
      [] kind = "Phlegmatic" -> "phlegmatic"
      [] kind = "Melancholic" -> "melancholic"
      [] kind = "Choleric" -> "choleric"
      [] OTHER -> "none"

\* the keys of humor_sums, in insertion order
HumorOrder == <<"sanguine", "phlegmatic", "melancholic", "choleric">>

\* for val, dobj in zip(combo.dice, sources + [None] * ...): the part of
\* humor_sums[h] one combination adds, from place i on
RECURSIVE SourcesSum(_, _, _, _, _)
SourcesSum(dice, sources, kinds, h, i) ==
    IF i > Len(dice) THEN 0
    ELSE (IF i <= Len(sources) /\ sources[i] # 0 /\ HumorBucket(kinds[sources[i]]) = h
          THEN dice[i] ELSE 0)
         + SourcesSum(dice, sources, kinds, h, i + 1)

\* humor_sums[h] over zip(insults, insult_sources), from combination c on
RECURSIVE HumorSum(_, _, _, _, _)
HumorSum(insults, insult_sources, kinds, h, c) ==
    IF c > Len(insults) THEN 0
    ELSE SourcesSum(insults[c].dice, insult_sources[c], kinds, h, 1)
         + HumorSum(insults, insult_sources, kinds, h, c + 1)

\* mutant: every humor that holds top_value is chosen, without the [:2] cut
ChosenHumors_AllTied(insults, insult_sources, kinds) ==
    LET sums == [i \in 1..4 |-> HumorSum(insults, insult_sources, kinds, HumorOrder[i], 1)]
        top_value == SetMax({sums[i] : i \in 1..4})
        tied == SelectSeq(<<1, 2, 3, 4>>, LAMBDA i : sums[i] = top_value)
    IN  IF top_value > 0
        THEN [i \in 1..Len(tied) |-> HumorOrder[tied[i]]]
        ELSE <<>>

\* chosen: the first two humors, in sorted_humors order, that hold top_value
ChosenHumors(insults, insult_sources, kinds) ==
    LET sums == [i \in 1..4 |-> HumorSum(insults, insult_sources, kinds, HumorOrder[i], 1)]
        top_value == SetMax({sums[i] : i \in 1..4})
        tied == SelectSeq(<<1, 2, 3, 4>>, LAMBDA i : sums[i] = top_value)
    IN  IF top_value > 0
        THEN [i \in 1..(IF Len(tied) < 2 THEN Len(tied) ELSE 2) |-> HumorOrder[tied[i]]]
        ELSE <<>>

\* the first (ci, si) whose source is a PhlegmaticDie, <<0, 0>> if there is none
FirstPhlegmatic(insult_sources, kinds) ==
    LET hits == {<<ci, si>> \in (1..Len(insult_sources)) \X (1..6) :
                    /\ si <= Len(insult_sources[ci])
                    /\ insult_sources[ci][si] # 0
                    /\ kinds[insult_sources[ci][si]] = "Phlegmatic"}
    IN  IF hits = {} THEN <<0, 0>>
        ELSE CHOOSE h \in hits :
                \A g \in hits : h[1] < g[1] \/ (h[1] = g[1] /\ h[2] <= g[2])

\* humor commit-time resolution; new_val is what the reroll of the
\* phlegmatic die gives
HumorResolution(bs, arch, kinds, lastv, new_val) ==
    LET chosen == IF arch \in {"Temperance", "Physiognomist"} /\ bs.insult_sources # <<>>
                  THEN ChosenHumors(bs.insults, bs.insult_sources, kinds)
                  ELSE <<>>
        p1 == IF SeqMember(chosen, "sanguine") THEN PHeal(bs.player, 1) ELSE bs.player
        e1 == IF SeqMember(chosen, "melancholic")
              THEN [bs.special_effects EXCEPT !.opp_neurosis = @ + 1]
              ELSE bs.special_effects
        e2 == IF SeqMember(chosen, "choleric") THEN [e1 EXCEPT !.opp_regret = @ + 2] ELSE e1
        at == FirstPhlegmatic(bs.insult_sources, kinds)
        reroll == SeqMember(chosen, "phlegmatic") /\ at # <<0, 0>>
        ins == IF reroll
               THEN [bs.insults EXCEPT ![at[1]] =
                        WithDice(@, SetItem(@.dice, at[2], new_val))]
               ELSE bs.insults
    IN  [insults |-> ins,
         player |-> p1,
         special_effects |-> e2,
         rerolled |-> reroll,
         last_value |-> IF reroll
                        THEN [lastv EXCEPT ![bs.insult_sources[at[1]][at[2]]] = new_val]
                        ELSE lastv]

\* RoundResult(...): the fields the debate reads or writes; bank_trace
\* records the passes of the banking loop that produced the insults
RoundResult(insults, fumbled, special_effects) ==
    [insults |-> insults,
     fumbled |-> fumbled,
     total_damage |-> SumSeq([i \in 1..Len(insults) |-> insults[i].damage]),
     special_effects |-> special_effects,
     insults_banked_count |-> Len(insults),
     damage_to_opponent |-> 0,
     damage_from_opponent |-> 0,
     bank_trace |-> <<>>]

\* GameEngine._bank_from_live_pool: (player, RoundResult, last values, the
\* locals at the end of the banking loop)
bank_from_live_pool(P, arch, live_pool, kinds, lastv, new_val) ==
    LET Outcome(looped, humor) ==
            [player |-> humor.player,
             rr |-> [RoundResult(humor.insults, FALSE, humor.special_effects)
                        EXCEPT !.bank_trace = looped.bank_trace],
             last_value |-> humor.last_value,
             rerolled |-> humor.rerolled,
             live_pool |-> looped.live_pool]
        Resolved(looped) ==
            Outcome(looped, HumorResolution(looped, arch, kinds, lastv, new_val))
    IN  Resolved(BankLoop([live_pool |-> live_pool,
                           live_dice |-> PoolValues(live_pool),
                           insults |-> <<>>,
                           insult_sources |-> <<>>,
                           player |-> P,
                           used_abyssal |-> FALSE,
                           special_effects |-> NoEffects,
                           bank_trace |-> <<>>], kinds, lastv))

\* mutant: the regret damage is dealt but the counter is not cleared
fumble_branch_KeepsRegret(pl, s) ==
    LET Regret(b) ==
            IF b[s].regret_tokens > 0
            THEN [b EXCEPT ![s] = PTakeDamage(@, b[s].regret_tokens)]
            ELSE b
        Out(h) == [players |-> IF h.uncaught THEN h.state ELSE Regret(h.state),
                   rr |-> RoundResult(<<>>, TRUE, NoEffects),
                   uncaught |-> h.uncaught]
    IN  Out(FumbleHooksFrom(FumbleHooksFrom(Normal(pl), s, 1, FALSE), 3 - s, 1, TRUE))

\* the fumble branch of play_debate for player s
fumble_branch(pl, s) ==
    LET Regret(b) ==
            IF b[s].regret_tokens > 0
            THEN [b EXCEPT ![s] = [PTakeDamage(@, b[s].regret_tokens)
                                       EXCEPT !.regret_tokens = 0]]
            ELSE b
        Out(h) == [players |-> IF h.uncaught THEN h.state ELSE Regret(h.state),
                   rr |-> RoundResult(<<>>, TRUE, NoEffects),
                   uncaught |-> h.uncaught]
    IN  Out(FumbleHooksFrom(FumbleHooksFrom(Normal(pl), s, 1, FALSE), 3 - s, 1, TRUE))

\* mutant: the candidate taken is the first of the sorted list, the lowest
StealIndex_Lowest(live_pool) ==
    LET cands == {i \in 1..Len(live_pool) : live_pool[i][1] > 0}
        low == SetMin({live_pool[i][1] : i \in cands})
    IN  IF cands = {} THEN 0
        ELSE SetMin({i \in cands : live_pool[i][1] = low})

\* cands = [(i, v, d) ... if isinstance(v, int) and v > 0]; sorted(...)[-1]:
\* the index of the last entry holding the highest positive value, 0 if none
StealIndex(live_pool) ==
    LET cands == {i \in 1..Len(live_pool) : live_pool[i][1] > 0}
        top == SetMax({live_pool[i][1] : i \in cands})
    IN  IF cands = {} THEN 0
        ELSE SetMax({i \in cands : live_pool[i][1] = top})

\* the deferred steal of player s from the pool of the opponent
pilfer_steal(st, s) ==
    IF st.players[s].pending_pilfer_next_round /\ st.pool[3 - s] # <<>>
    THEN LET idx == StealIndex(st.pool[3 - s])
         IN  [players |-> [st.players EXCEPT ![s].pending_pilfer_next_round = FALSE],
              pool |-> IF idx # 0
                       THEN [st.pool EXCEPT ![3 - s] = RemoveAt(@, idx),
                                            ![s] = Append(@, st.pool[3 - s][idx])]
                       ELSE st.pool]
    ELSE st

\* mutant: the new flags are set before the deferred steals are resolved
pilfer_block_FlagsFirst(pl, pools, effs) ==
    LET Flagged(b) ==
            [players |-> [s \in 1..2 |->
                            IF effs[s].pilfer_six >= 2
                            THEN [b.players[s] EXCEPT !.pending_pilfer_next_round = TRUE]
                            ELSE b.players[s]],
             pool |-> b.pool]
    IN  pilfer_steal(pilfer_steal(Flagged([players |-> pl, pool |-> pools]), 1), 2)

\* the pilfer block of play_debate: both deferred steals, then the new flags
pilfer_block(pl, pools, effs) ==
    LET Flagged(b) ==
            [players |-> [s \in 1..2 |->
                            IF effs[s].pilfer_six >= 2
                            THEN [b.players[s] EXCEPT !.pending_pilfer_next_round = TRUE]
                            ELSE b.players[s]],
             pool |-> b.pool]
    IN  Flagged(pilfer_steal(pilfer_steal([players |-> pl, pool |-> pools], 1), 2))

\* mutant: the neurosis step decrements without looking at the counter
neurosis_step_Unguarded(pl, s) ==
    [pl EXCEPT ![s] = [PTakeDamage(@, 1) EXCEPT !.neurosis_tokens = @ - 1]]

\* if player.neurosis_tokens > 0: take 1 damage, lose one token
neurosis_step(pl, s) ==
    IF pl[s].neurosis_tokens > 0
    THEN [pl EXCEPT ![s] = [PTakeDamage(@, 1) EXCEPT
                               !.neurosis_tokens = IF @ - 1 > 0 THEN @ - 1 ELSE 0]]
    ELSE pl

\* if player.forgiveness_tokens > 0: heal 1, lose one token
forgiveness_step(pl, s) ==
    IF pl[s].forgiveness_tokens > 0
    THEN [pl EXCEPT ![s] = [PHeal(@, 1) EXCEPT
                               !.forgiveness_tokens = IF @ - 1 > 0 THEN @ - 1 ELSE 0]]
    ELSE pl

\* the ridicule transfer of player s
ridicule_step(pl, s, se) ==
    IF se.ridicule_six # 0
    THEN IF pl[s].regret_tokens > 0
         THEN [pl EXCEPT ![s].regret_tokens = @ - 1,
                         ![3 - s] = add_regret_tokens(@, 1)]
         ELSE [pl EXCEPT ![s] = add_regret_tokens(@, 1)]
    ELSE pl

\* mutant: the forgiveness step comes before the neurosis step
token_processing_ForgivenessFirst(pl, se1, se2) ==
    LET Damage(p, s, n) == IF n > 0 THEN [p EXCEPT ![s] = PTakeDamage(@, n)] ELSE p
        Neurosis(p, s, n) == IF n > 0 THEN [p EXCEPT ![s] = add_neurosis_tokens(@, n)] ELSE p
        Regret(p, s, n) == IF n > 0 THEN [p EXCEPT ![s] = add_regret_tokens(@, n)] ELSE p
        a == Damage(pl, 2, se1.opp_damage)
        b == Damage(a, 1, se2.opp_damage)
        c == Neurosis(b, 2, se1.opp_neurosis)
        d == Neurosis(c, 1, se2.opp_neurosis)
        e == forgiveness_step(forgiveness_step(d, 1), 2)
        f == Regret(e, 1, se1.self_regret)
        g == Regret(f, 2, se2.self_regret)
        h == ridicule_step(ridicule_step(g, 1, se1), 2, se2)
        i == Regret(h, 2, se1.opp_regret)
        j == Regret(i, 1, se2.opp_regret)
    IN  neurosis_step(neurosis_step(j, 1), 2)

\* the token processing that follows damage1_to_2 = damage2_to_1 = 0
token_processing(pl, se1, se2) ==
    LET Damage(p, s, n) == IF n > 0 THEN [p EXCEPT ![s] = PTakeDamage(@, n)] ELSE p
        Neurosis(p, s, n) == IF n > 0 THEN [p EXCEPT ![s] = add_neurosis_tokens(@, n)] ELSE p
        Regret(p, s, n) == IF n > 0 THEN [p EXCEPT ![s] = add_regret_tokens(@, n)] ELSE p
        a == Damage(pl, 2, se1.opp_damage)
        b == Damage(a, 1, se2.opp_damage)
        c == Neurosis(b, 2, se1.opp_neurosis)
        d == Neurosis(c, 1, se2.opp_neurosis)
        e == neurosis_step(neurosis_step(d, 1), 2)
        f == Regret(e, 1, se1.self_regret)
        g == Regret(f, 2, se2.self_regret)
        h == ridicule_step(ridicule_step(g, 1, se1), 2, se2)
        i == Regret(h, 2, se1.opp_regret)
        j == Regret(i, 1, se2.opp_regret)
    IN  forgiveness_step(forgiveness_step(j, 1), 2)

\* "Apply special effects" of play_debate for player s
apply_round_effects(pl, s, se) ==
    LET a == IF se.heal > 0 THEN [pl EXCEPT ![s] = PHeal(@, se.heal)] ELSE pl
    IN  IF se.damage > 0 THEN [a EXCEPT ![s] = PTakeDamage(@, se.damage)] ELSE a

Doubled(pl, dmg, S) ==
    LET a == IF 1 \in S /\ pl[1].penance_double_active THEN dmg * 2 ELSE dmg
    IN  IF 2 \in S /\ pl[2].penance_double_active THEN a * 2 ELSE a

\* mutant: only a round in which both players banked has a clash
damage_exchange_NoLoneAttack(pl, r1, r2) ==
    IF ~r1.fumbled /\ ~r2.fumbled
    THEN LET damage1_to_2 == Doubled(pl, calculate_damage(r1.insults, r2.insults), {1, 2})
             damage2_to_1 == Doubled(pl, calculate_damage(r2.insults, r1.insults), {1, 2})
         IN  [players |-> [pl EXCEPT ![2] = PTakeDamage(@, damage1_to_2),
                                     ![1] = PTakeDamage(@, damage2_to_1)],
              rr |-> <<[r1 EXCEPT !.damage_to_opponent = damage1_to_2,
                                  !.damage_from_opponent = damage2_to_1],
                       [r2 EXCEPT !.damage_from_opponent = damage1_to_2,
                                  !.damage_to_opponent = damage2_to_1]>>]
    ELSE [players |-> token_processing(pl, r1.special_effects, r2.special_effects),
          rr |-> <<r1, r2>>]

\* mutant: the second direction of the clash is resolved after the first was
\* applied, against a defender who is already down
damage_exchange_Sequential(pl, r1, r2) ==
    IF ~r1.fumbled /\ ~r2.fumbled
    THEN LET damage1_to_2 == Doubled(pl, calculate_damage(r1.insults, r2.insults), {1, 2})
             hit == [pl EXCEPT ![2] = PTakeDamage(@, damage1_to_2)]
             damage2_to_1 == IF hit[2].health <= 0 THEN 0
                             ELSE Doubled(pl, calculate_damage(r2.insults, r1.insults), {1, 2})
         IN  [players |-> [hit EXCEPT ![1] = PTakeDamage(@, damage2_to_1)],
              rr |-> <<[r1 EXCEPT !.damage_to_opponent = damage1_to_2,
                                  !.damage_from_opponent = damage2_to_1],
                       [r2 EXCEPT !.damage_from_opponent = damage1_to_2,
                                  !.damage_to_opponent = damage2_to_1]>>]
    ELSE IF r1.fumbled /\ ~r2.fumbled
    THEN LET damage2_to_1 == Doubled(pl, calculate_damage(r2.insults, <<>>), {2})
         IN  [players |-> [pl EXCEPT ![1] = PTakeDamage(@, damage2_to_1)],
              rr |-> <<[r1 EXCEPT !.damage_from_opponent = damage2_to_1],
                       [r2 EXCEPT !.damage_to_opponent = damage2_to_1]>>]
    ELSE IF r2.fumbled /\ ~r1.fumbled
    THEN LET damage1_to_2 == Doubled(pl, calculate_damage(r1.insults, <<>>), {1})
         IN  [players |-> [pl EXCEPT ![2] = PTakeDamage(@, damage1_to_2)],
              rr |-> <<[r1 EXCEPT !.damage_to_opponent = damage1_to_2],
                       [r2 EXCEPT !.damage_from_opponent = damage1_to_2]>>]
    ELSE [players |-> token_processing(pl, r1.special_effects, r2.special_effects),
          rr |-> <<r1, r2>>]

\* "Calculate damage exchange" of play_debate: (players, round1, round2)
damage_exchange(pl, r1, r2) ==
    IF ~r1.fumbled /\ ~r2.fumbled
    THEN LET c1 == calculate_damage_call(r1.insults, r2.insults)
             c2 == calculate_damage_call(c1.defender_insults, c1.attacker_insults)
             damage1_to_2 == Doubled(pl, c1.unblocked, {1, 2})
             damage2_to_1 == Doubled(pl, c2.unblocked, {1, 2})
         IN  [players |-> [pl EXCEPT ![2] = PTakeDamage(@, damage1_to_2),
                                     ![1] = PTakeDamage(@, damage2_to_1)],
              rr |-> <<[r1 EXCEPT !.insults = c2.defender_insults,
                                  !.damage_to_opponent = damage1_to_2,
                                  !.damage_from_opponent = damage2_to_1],
                       [r2 EXCEPT !.insults = c2.attacker_insults,
                                  !.damage_from_opponent = damage1_to_2,
                                  !.damage_to_opponent = damage2_to_1]>>]
    ELSE IF r1.fumbled /\ ~r2.fumbled
    THEN LET c2 == calculate_damage_call(r2.insults, <<>>)
             damage2_to_1 == Doubled(pl, c2.unblocked, {2})
         IN  [players |-> [pl EXCEPT ![1] = PTakeDamage(@, damage2_to_1)],
              rr |-> <<[r1 EXCEPT !.damage_from_opponent = damage2_to_1],
                       [r2 EXCEPT !.insults = c2.attacker_insults,
                                  !.damage_to_opponent = damage2_to_1]>>]
    ELSE IF r2.fumbled /\ ~r1.fumbled
    THEN LET c1 == calculate_damage_call(r1.insults, <<>>)
             damage1_to_2 == Doubled(pl, c1.unblocked, {1})
         IN  [players |-> [pl EXCEPT ![2] = PTakeDamage(@, damage1_to_2)],
              rr |-> <<[r1 EXCEPT !.insults = c1.attacker_insults,
                                  !.damage_to_opponent = damage1_to_2],
                       [r2 EXCEPT !.damage_from_opponent = damage1_to_2]>>]
    ELSE [players |-> token_processing(pl, r1.special_effects, r2.special_effects),
          rr |-> <<r1, r2>>]

\* the three knock-out returns of play_debate; "none" when nobody is down
knockout_winner(pl) ==
    IF pl[1].health <= 0 /\ pl[2].health <= 0 THEN "Tie"
    ELSE IF pl[1].health <= 0 THEN "p2"
    ELSE IF pl[2].health <= 0 THEN "p1"
    ELSE "none"

\* mutant: equal health at the round cap is reported as a win of player 1
health_winner_TieToFirst(pl) ==
    IF pl[1].health >= pl[2].health THEN "p1"
    ELSE "p2"

\* "Determine winner by health"
health_winner(pl) ==
    IF pl[1].health > pl[2].health THEN "p1"
    ELSE IF pl[2].health > pl[1].health THEN "p2"
    ELSE "Tie"

\* ---------------------------------------------------------------- state
VARIABLES
    cd_values,          \* the dice_values argument of the last find_combos call
    cd_combos,          \* what that call returned
    attacker_insults,   \* the attacker_insults argument of calculate_damage
    defender_insults,   \* the defender_insults argument of calculate_damage
    unblocked_damage,   \* what calculate_damage returned for them
    players,            \* the two Player objects of a debate, by index 1, 2
    archetype,          \* the class of each player's Archetype argument
    max_rounds,         \* the max_rounds argument of play_debate
    die_kind,           \* the class of every Dice object, by object id
    last_value,         \* Dice.last_value of every Dice object
    pc,                 \* the place play_debate has reached
    round_num,          \* round_num of play_debate's for loop
    pool,               \* pool1 / pool2: lists of (value, die object or 0 for None)
    effects,            \* effects1 / effects2 of the round's roll
    fumble,             \* fumble1 / fumble2
    round_result,       \* round1 / round2
    rounds_len,         \* len(rounds)
    winner,             \* DebateResult.winner: "p1", "p2", "Tie"; "none" before the return
    triggers            \* on_trigger calls made before the debate

comboVars == <<cd_values, cd_combos>>
damageVars == <<attacker_insults, defender_insults, unblocked_damage>>
debateVars == <<players, archetype, max_rounds, die_kind, last_value, pc, round_num, pool,
                effects, fumble, round_result, rounds_len, winner, triggers>>
vars == <<comboVars, damageVars, debateVars>>

ComboIdle == cd_values = <<>> /\ cd_combos = <<>>
DebateIdle ==
    /\ players = <<>>
    /\ archetype = <<>>
    /\ max_rounds = 0
    /\ die_kind = <<>>
    /\ last_value = <<>>
    /\ pc = "idle"
    /\ round_num = 0
    /\ pool = <<>>
    /\ effects = <<>>
    /\ fumble = <<>>
    /\ round_result = <<>>
    /\ rounds_len = 0
    /\ winner = "none"
    /\ triggers = 0
DamageIdle ==
    attacker_insults = <<>> /\ defender_insults = <<>> /\ unblocked_damage = 0

\* ------------------------------------------------- find_combos, driven
IsAscending(s) == \A i \in 1..(Len(s) - 1) : s[i] <= s[i + 1]
IsDescending(s) == \A i \in 1..(Len(s) - 1) : s[i] >= s[i + 1]
HasBlank(s) == \E i \in 1..Len(s) : s[i] \in {Blank, NoneVal}

InitCombo ==
    /\ cd_values = <<>>
    /\ cd_combos = find_combos(<<>>)
    /\ DamageIdle
    /\ DebateIdle

\* find_combos is called on the list extended by a rolled face
FindWithValue(v) ==
    /\ \/ Len(cd_values) < MaxLen /\ ~HasBlank(cd_values)
       \/ Len(cd_values) < MaxBlankLen
       \/ /\ Len(cd_values) < MaxSortedLen
          /\ ~HasBlank(cd_values)
          /\ IsAscending(Append(cd_values, v)) \/ IsDescending(Append(cd_values, v))
    /\ cd_values' = Append(cd_values, v)
    /\ cd_combos' = find_combos(cd_values')
    /\ UNCHANGED <<damageVars, debateVars>>

\* find_combos is called on the list extended by a blank (-1) or None
FindWithBlank(b) ==
    /\ Len(cd_values) < MaxBlankLen
    /\ cd_values' = Append(cd_values, b)
    /\ cd_combos' = find_combos(cd_values')
    /\ UNCHANGED <<damageVars, debateVars>>

NextCombo ==
    \/ \E v \in Faces : FindWithValue(v)
    \/ \E b \in {Blank, NoneVal} : FindWithBlank(b)

SpecCombo == InitCombo /\ [][NextCombo]_vars

\* ---------------------------------------------- calculate_damage, driven
InitDamage ==
    /\ attacker_insults = <<>>
    /\ defender_insults = <<>>
    /\ unblocked_damage = calculate_damage(<<>>, <<>>)
    /\ ComboIdle
    /\ DebateIdle

Monotone(s) == IsAscending(s) \/ IsDescending(s)

\* the attacker banks one more insult (a single die or a pair) and the
\* damage is resolved again
AddAttackerInsult(v, n) ==
    /\ Len(CollectDice(attacker_insults)) + n <= MaxAttackDice
    /\ attacker_insults' = Append(attacker_insults, Combo("Solid", Repeat(v, n), 0))
    /\ Monotone(CollectDice(attacker_insults'))
    /\ unblocked_damage' = calculate_damage(attacker_insults', defender_insults)
    /\ UNCHANGED <<defender_insults, comboVars, debateVars>>

\* the defender banks one more insult and the damage is resolved again
AddDefenderInsult(v, n) ==
    /\ Len(CollectDice(defender_insults)) + n <= MaxDefendDice
    /\ defender_insults' = Append(defender_insults, Combo("Solid", Repeat(v, n), 0))
    /\ Monotone(CollectDice(defender_insults'))
    /\ unblocked_damage' = calculate_damage(attacker_insults, defender_insults')
    /\ UNCHANGED <<attacker_insults, comboVars, debateVars>>

NextDamage ==
    \/ \E v \in Faces, n \in 1..2 : AddAttackerInsult(v, n)
    \/ \E v \in Faces, n \in 1..2 : AddDefenderInsult(v, n)

SpecDamage == InitDamage /\ [][NextDamage]_vars

\* ---------------------------------------------------- play_debate, driven
\* the arguments a debate is set up with: kinds gives the class of die
\* object d, dice the die objects of each player's list (a die object in both
\* lists is shared, as create_player shares the dice of one archetype),
\* emotions the classes of each player's emotion objects, max_rounds the
\* argument of play_debate
Setups ==
    { [arch |-> <<"Archetype", "Archetype">>,
       kinds |-> <<"Comedown", "Comedown", "Apathetic">>,
       dice |-> << <<1, 2>>, <<3>> >>,
       emotions |-> << <<"Tantrum", "Chivalry">>, <<"MarxistAccelerationism">> >>,
       max_rounds |-> MaxRounds],
      [arch |-> <<"Euphoria", "Archetype">>,
       kinds |-> <<"Bliss", "Catastrophize">>,
       dice |-> << <<1>>, <<2>> >>,
       emotions |-> << <<RaisingEmotion, "Schadenfreude">>,
                       <<"UndueCertainty", "PersecutoryDelusions">> >>,
       max_rounds |-> 2],
      [arch |-> <<"Archetype", "Archetype">>,
       kinds |-> <<"Catastrophize", "Aporic">>,
       dice |-> << <<1>>, <<2>> >>,
       emotions |-> << <<"Hypervigilance", RaisingEmotion, "PlaceboEffect">>,
                       <<"SuperegoShield", "Schadenfreude">> >>,
       max_rounds |-> 2],
      [arch |-> <<"Temperance", "Archetype">>,
       kinds |-> <<"Sanguine", "Phlegmatic", "Blank">>,
       dice |-> << <<1, 2>>, <<3>> >>,
       emotions |-> << <<RaisingEmotion, "CognitiveDissonance">>, <<RaisingEmotion>> >>,
       max_rounds |-> MaxRounds - 1],
      [arch |-> <<"Archetype", "Archetype">>,
       kinds |-> <<"Pilfer", "Pilfer", "Apathetic">>,
       dice |-> << <<1, 2>>, <<3>> >>,
       emotions |-> << <<>>, <<"Outburst">> >>,
       max_rounds |-> MaxRounds],
      [arch |-> <<"Archetype", "Archetype">>,
       kinds |-> <<"Spite", "Abyssal">>,
       dice |-> << <<1>>, <<2>> >>,
       emotions |-> << <<"Schadenfreude", "Habituation", "Overstimulated">>,
                       <<"Absolution", "Projection", "PersecutoryDelusions">> >>,
       max_rounds |-> MaxRounds],
      [arch |-> <<"Archetype", "Archetype">>,
       kinds |-> <<"Penance">>,
       dice |-> << <<1>>, <<1>> >>,
       emotions |-> << <<"MasochisticRapture", "IntrusiveThought">>, <<>> >>,
       max_rounds |-> MaxRounds - 1],
      [arch |-> <<"Archetype", "Archetype">>,
       kinds |-> <<"Apathetic", "Blank", "Blank", "Blank", "Spite", "Blank">>,
       dice |-> << <<1, 2, 3, 4, 5>>, <<6>> >>,
       emotions |-> << <<>>, <<>> >>,
       max_rounds |-> MaxRounds - 1],
      [arch |-> <<"Archetype", "Archetype">>,
       kinds |-> <<"Pilfer", "Pilfer">>,
       dice |-> << <<1, 2>>, <<1, 2>> >>,
       emotions |-> << <<>>, <<>> >>,
       max_rounds |-> 2],
      [arch |-> <<"Archetype", "Archetype">>,
       kinds |-> <<"Pilfer", "Pilfer", "Catastrophize">>,
       dice |-> << <<1, 2, 3>>, <<>> >>,
       emotions |-> << <<>>, <<>> >>,
       max_rounds |-> 2],
      [arch |-> <<"Archetype", "Archetype">>,
       kinds |-> <<"Nostalgia", "Blank">>,
       dice |-> << <<1>>, <<2>> >>,
       emotions |-> << <<>>, <<>> >>,
       max_rounds |-> 2],
      [arch |-> <<"Archetype", "Archetype">>,
       kinds |-> <<"Penance", "Catastrophize", "Apathetic">>,
       dice |-> << <<1, 2>>, <<3>> >>,
       emotions |-> << <<>>, <<>> >>,
       max_rounds |-> 2],
      [arch |-> <<"Archetype", "Archetype">>,
       kinds |-> <<"Pilfer", "Pilfer", "Pilfer", "Pilfer">>,
       dice |-> << <<1, 2, 3, 4>>, <<>> >>,
       emotions |-> << <<>>, <<>> >>,
       max_rounds |-> 1],
      [arch |-> <<"Archetype", "Archetype">>,
       kinds |-> <<"HighMinded", "Spite", "Spite", "Blank">>,
       dice |-> << <<1, 2, 3>>, <<4>> >>,
       emotions |-> << <<"CognitiveDissonance">>, <<>> >>,
       max_rounds |-> 1],
      [arch |-> <<"Temperance", "Archetype">>,
       kinds |-> <<"Sanguine", "Melancholic", "Melancholic", "Choleric", "Blank", "Blank">>,
       dice |-> << <<1, 2, 3, 4, 5>>, <<6>> >>,
       emotions |-> << <<>>, <<>> >>,
       max_rounds |-> 1],
      [arch |-> <<"Archetype", "Archetype">>,
       kinds |-> <<"Comedown", "Blank">>,
       dice |-> << <<1>>, <<2>> >>,
       emotions |-> << <<HalfDoneEmotion>>, <<>> >>,
       max_rounds |-> 1] }

\* the amounts a direct take_damage / heal call is made with
Amounts == {0, MaxAmount}

\* a RoundResult local that is not assigned yet
NoRound == RoundResult(<<>>, FALSE, NoEffects)

\* the health values written during the step in progress start empty
ClearTrace(pl) == [s \in 1..2 |-> [pl[s] EXCEPT !.health_trace = {}]]

RoundLocalsReset ==
    /\ pool' = << <<>>, <<>> >>
    /\ effects' = <<NoEffects, NoEffects>>
    /\ fumble' = <<FALSE, FALSE>>
    /\ round_result' = <<NoRound, NoRound>>

\* Archetype.create_player: Player(dice=[dice for dice in self.dice]), a new
\* list of the die objects of the archetype; the caller attaches the emotions
create_player(dice, emotions) ==
    NewPlayer([i \in 1..Len(dice) |-> dice[i]], emotions)

Init ==
    /\ ComboIdle
    /\ DamageIdle
    /\ \E c \in Setups :
          /\ players = [s \in 1..2 |-> create_player(c.dice[s], c.emotions[s])]
          /\ archetype = c.arch
          /\ max_rounds = c.max_rounds
          /\ die_kind = c.kinds
          /\ last_value = [d \in DOMAIN c.kinds |-> NoneVal]
    /\ pc = "start"
    /\ round_num = 0
    /\ pool = << <<>>, <<>> >>
    /\ effects = <<NoEffects, NoEffects>>
    /\ fumble = <<FALSE, FALSE>>
    /\ round_result = <<NoRound, NoRound>>
    /\ rounds_len = 0
    /\ winner = "none"
    /\ triggers = 0

\* emo.on_trigger(EmotionContext(engine, player s, the opponent, 0, {})),
\* called on the k-th emotion of player s before the debate
Trigger(s, k) ==
    /\ pc = "start"
    /\ triggers < MaxTriggers
    /\ k \in 1..Len(players[s].emotions)
    /\ ~HookRaises(players[s].emotions[k])
    /\ players' = on_trigger(ClearTrace(players), s, k)
    /\ triggers' = triggers + 1
    /\ UNCHANGED <<archetype, max_rounds, die_kind, last_value, pc, round_num, pool, effects,
                   fumble, round_result, rounds_len, winner, comboVars, damageVars>>

\* player.take_damage(amount), called directly before the debate
CallTakeDamage(s, amount) ==
    /\ pc = "start"
    /\ triggers < MaxTriggers
    /\ players' = [ClearTrace(players) EXCEPT ![s] = PTakeDamage(@, amount)]
    /\ triggers' = triggers + 1
    /\ UNCHANGED <<archetype, max_rounds, die_kind, last_value, pc, round_num, pool, effects,
                   fumble, round_result, rounds_len, winner, comboVars, damageVars>>

\* player.heal(amount), called directly before the debate
CallHeal(s, amount) ==
    /\ pc = "start"
    /\ triggers < MaxTriggers
    /\ players' = [ClearTrace(players) EXCEPT ![s] = PHeal(@, amount)]
    /\ triggers' = triggers + 1
    /\ UNCHANGED <<archetype, max_rounds, die_kind, last_value, pc, round_num, pool, effects,
                   fumble, round_result, rounds_len, winner, comboVars, damageVars>>

\* play_debate is entered: rounds = [], the on_debate_start hooks of player
\* 1, then of player 2, the first pass of the for loop; pc "raised" is the
\* exit of play_debate by an exception
DebateStart ==
    /\ pc = "start"
    /\ max_rounds > 0
    /\ \E h \in {DebateStartHooksFrom(
                      DebateStartHooksFrom(Normal(ClearTrace(players)), 1, 1), 2, 1)} :
          /\ players' = h.state
          /\ pc' = (IF h.uncaught THEN "raised" ELSE "roll1")
    /\ round_num' = 0
    /\ rounds_len' = 0
    /\ triggers' = 0
    /\ UNCHANGED <<archetype, max_rounds, die_kind, last_value, pool, effects, fumble,
                   round_result, winner, comboVars, damageVars>>

\* the results random.choice can give for the dice of P
RollSpace(P, kinds) ==
    {vals \in [1..Len(P.dice) -> (Faces \cup {NoneVal, Blank})] : ValidRoll(P, kinds, vals)}

\* pool_s, effects_s = self._roll_live_pool(player_s, archetype_s)
Roll(s) ==
    /\ pc = (IF s = 1 THEN "roll1" ELSE "roll2")
    /\ \E vals \in RollSpace(players[s], die_kind) :
          \E r \in {roll_live_pool(ClearTrace(players)[s], archetype[s], die_kind, vals)} :
              /\ players' = [ClearTrace(players) EXCEPT ![s] = r.player]
              /\ pool' = [pool EXCEPT ![s] = r.live_pool]
              /\ effects' = [effects EXCEPT ![s] = r.round_effects]
              /\ last_value' = RolledLastValues(players[s], die_kind, last_value, vals)
    /\ pc' = (IF s = 1 THEN "roll2" ELSE "after_roll")
    /\ UNCHANGED <<archetype, max_rounds, die_kind, round_num, fumble, round_result, rounds_len,
                   winner, triggers, comboVars, damageVars>>

\* the values randint(1, 6) can give to IntrusiveThought for the pool of P
Rerolls(P, live_pool) ==
    IF "intrusive_reroll" \in P.totems /\ SeqMember(P.emotions, "IntrusiveThought")
    THEN [1..Len(live_pool) -> 1..6]
    ELSE {[i \in 1..Len(live_pool) |-> 1]}

\* the on_after_roll hooks of player 1 on pool1, then of player 2 on pool2
AfterRoll ==
    /\ pc = "after_roll"
    /\ \E nv1 \in Rerolls(players[1], pool[1]), nv2 \in Rerolls(players[2], pool[2]) :
          \E a \in {AfterRollHooksFrom(Normal(<<ClearTrace(players), pool[1]>>), 1, 1, nv1)} :
          \E b \in {AfterRollHooksFrom([a EXCEPT !.state = <<a.state[1], pool[2]>>],
                                       2, 1, nv2)} :
              /\ players' = b.state[1]
              /\ pool' = <<a.state[2], b.state[2]>>
              /\ pc' = (IF b.uncaught THEN "raised" ELSE "fumble_check")
    /\ UNCHANGED <<archetype, max_rounds, die_kind, last_value, round_num, effects, fumble,
                   round_result, rounds_len, winner, triggers, comboVars, damageVars>>

\* fumble1, fumble2 and the pilfer block
FumbleCheck ==
    /\ pc = "fumble_check"
    /\ fumble' = [s \in 1..2 |->
                    effects[s].force_fumble # 0 /\ ~players[s].bust_protection]
    /\ \E p \in {pilfer_block(ClearTrace(players), pool, effects)} :
          players' = p.players /\ pool' = p.pool
    /\ pc' = "bank1"
    /\ UNCHANGED <<archetype, max_rounds, die_kind, last_value, round_num, effects,
                   round_result, rounds_len, winner, triggers, comboVars, damageVars>>

\* round_s = self._bank_from_live_pool(...) when player s did not fumble
Bank(s) ==
    /\ pc = (IF s = 1 THEN "bank1" ELSE "bank2")
    /\ ~fumble[s]
    /\ \E new_val \in DiceFaces("Phlegmatic") :
          \E b \in {bank_from_live_pool(ClearTrace(players)[s], archetype[s], pool[s],
                                         die_kind, last_value, new_val)} :
              /\ players' = [ClearTrace(players) EXCEPT ![s] = b.player]
              /\ round_result' = [round_result EXCEPT ![s] = b.rr]
              /\ last_value' = b.last_value
              /\ pool' = [pool EXCEPT ![s] = b.live_pool]
    /\ pc' = (IF s = 1 THEN "bank2" ELSE "effects")
    /\ rounds_len' = (IF s = 2 THEN rounds_len + 2 ELSE rounds_len)
    /\ UNCHANGED <<archetype, max_rounds, die_kind, round_num, effects, fumble, winner,
                   triggers, comboVars, damageVars>>

\* the else branch: on_fumble hooks, regret damage, the fumbled RoundResult
Fumble(s) ==
    /\ pc = (IF s = 1 THEN "bank1" ELSE "bank2")
    /\ fumble[s]
    /\ \E f \in {fumble_branch(ClearTrace(players), s)} :
          /\ players' = f.players
          /\ round_result' = [round_result EXCEPT ![s] = f.rr]
          /\ pc' = (IF f.uncaught THEN "raised" ELSE IF s = 1 THEN "bank2" ELSE "effects")
    /\ rounds_len' = (IF s = 2 THEN rounds_len + 2 ELSE rounds_len)
    /\ UNCHANGED <<archetype, max_rounds, die_kind, last_value, round_num, pool, effects, fumble,
                   winner, triggers, comboVars, damageVars>>

\* "Apply special effects": heal and damage of round1, then of round2
ApplyEffects ==
    /\ pc = "effects"
    /\ players' = apply_round_effects(
                      apply_round_effects(ClearTrace(players), 1,
                                          round_result[1].special_effects),
                      2, round_result[2].special_effects)
    /\ pc' = "clash"
    /\ UNCHANGED <<archetype, max_rounds, die_kind, last_value, round_num, pool, effects, fumble,
                   round_result, rounds_len, winner, triggers, comboVars, damageVars>>

\* "Calculate damage exchange", with the token processing of its else branch
Clash ==
    /\ pc = "clash"
    /\ \E x \in {damage_exchange(ClearTrace(players), round_result[1], round_result[2])} :
          /\ players' = x.players
          /\ round_result' = x.rr
    /\ pc' = "win_check"
    /\ UNCHANGED <<archetype, max_rounds, die_kind, last_value, round_num, pool, effects, fumble,
                   rounds_len, winner, triggers, comboVars, damageVars>>

\* "Check for winner": a knock-out returns the DebateResult at once
KnockOut ==
    /\ pc = "win_check"
    /\ knockout_winner(players) # "none"
    /\ winner' = knockout_winner(players)
    /\ pc' = "done"
    /\ players' = ClearTrace(players)
    /\ RoundLocalsReset
    /\ UNCHANGED <<archetype, max_rounds, die_kind, last_value, round_num, rounds_len,
                   triggers, comboVars, damageVars>>

\* mutant: the for loop goes on without looking at the healths
NextRound_IgnoresKnockOut ==
    /\ pc = "win_check"
    /\ round_num + 1 < max_rounds
    /\ round_num' = round_num + 1
    /\ pc' = "roll1"
    /\ players' = ClearTrace(players)
    /\ RoundLocalsReset
    /\ UNCHANGED <<archetype, max_rounds, die_kind, last_value, rounds_len, winner,
                   triggers, comboVars, damageVars>>

\* nobody is down and the for loop has another pass
NextRound ==
    /\ pc = "win_check"
    /\ knockout_winner(players) = "none"
    /\ round_num + 1 < max_rounds
    /\ round_num' = round_num + 1
    /\ pc' = "roll1"
    /\ players' = ClearTrace(players)
    /\ RoundLocalsReset
    /\ UNCHANGED <<archetype, max_rounds, die_kind, last_value, rounds_len, winner,
                   triggers, comboVars, damageVars>>

\* the for loop is exhausted: on_debate_end hooks, winner by health, the
\* per-debate tokens are cleared, the DebateResult is returned
DebateEnd ==
    /\ pc = "win_check"
    /\ knockout_winner(players) = "none"
    /\ round_num + 1 >= max_rounds
    /\ \E h \in {DebateEndHooksFrom(
                      DebateEndHooksFrom(Normal(ClearTrace(players)), 1, 1), 2, 1)} :
          /\ winner' = (IF h.uncaught THEN winner ELSE health_winner(h.state))
          /\ players' = (IF h.uncaught THEN h.state
                         ELSE [s \in 1..2 |->
                                  [h.state[s] EXCEPT !.neurosis_tokens = 0,
                                                     !.forgiveness_tokens = 0]])
          /\ pc' = (IF h.uncaught THEN "raised" ELSE "done")
    /\ RoundLocalsReset
    /\ UNCHANGED <<archetype, max_rounds, die_kind, last_value, round_num, rounds_len,
                   triggers, comboVars, damageVars>>

Next ==
    \/ \E s \in 1..2 : \E k \in 1..Len(players[s].emotions) : Trigger(s, k)
    \/ \E s \in 1..2, amount \in Amounts : CallTakeDamage(s, amount)
    \/ \E s \in 1..2, amount \in Amounts : CallHeal(s, amount)
    \/ DebateStart
    \/ \E s \in 1..2 : Roll(s)
    \/ AfterRoll
    \/ FumbleCheck
    \/ \E s \in 1..2 : Bank(s)
    \/ \E s \in 1..2 : Fumble(s)
    \/ ApplyEffects
    \/ Clash
    \/ KnockOut
    \/ NextRound
    \/ DebateEnd

Spec == Init /\ [][Next]_vars

\* =================================================================
\* Properties of find_combos (checked under SpecCombo)
\* =================================================================
IsBlankValue(d) == d = Blank \/ d = NoneVal
HasValue(s) == \E i \in 1..Len(s) : ~IsBlankValue(s[i])
Occurrences(s, v) == Cardinality({i \in 1..Len(s) : s[i] = v})

\* C1: find_combos returns exactly one combination, holding at least one
\* die, when the input has a non-blank value, and an empty result when the
\* input is empty or holds only blank sentinels (-1 / None).
C1_OneComboIffValue ==
    IF HasValue(cd_values)
    THEN Len(cd_combos) = 1 /\ Len(cd_combos[1].dice) >= 1
    ELSE cd_combos = <<>>

C1_Witness ==
    /\ HasBlank(cd_values)
    /\ HasValue(cd_values)
    /\ Len(cd_combos) = 1
    /\ Len(cd_combos[1].dice) >= 2

\* C2: the dice of the returned combination are a sub-multiset of the
\* non-blank input values.
C2_SubMultiset ==
    \A k \in 1..Len(cd_combos) :
        \A i \in 1..Len(cd_combos[k].dice) :
            LET v == cd_combos[k].dice[i]
            IN  /\ ~IsBlankValue(v)
                /\ Occurrences(cd_combos[k].dice, v) <= Occurrences(cd_values, v)

C2_Witness ==
    /\ Len(cd_combos) = 1
    /\ Len(cd_values) > Len(cd_combos[1].dice)
    /\ \E v \in Faces : Occurrences(cd_combos[1].dice, v) >= 3
    /\ \E v \in Faces : Occurrences(cd_combos[1].dice, v) = 0 /\ Occurrences(cd_values, v) > 0

\* the generation rules as stated, each candidate with its place (rank) in
\* the fixed order
HasAll(s, S) == \A v \in S : Occurrences(s, v) > 0
RuleKind(s, n, rank, echo) ==
    {[rank |-> rank, dice |-> [j \in 1..n |-> v], echo |-> echo] :
        v \in {w \in Faces : Occurrences(s, w) >= n}}
RuleStraight(s, n, rank, echo) ==
    {[rank |-> rank, dice |-> [j \in 1..n |-> a + j - 1], echo |-> echo] :
        a \in {b \in Faces : HasAll(s, b..(b + n - 1))}}
RuleTwoTriplets(s) ==
    LET T == {w \in Faces : Occurrences(s, w) >= 3}
    IN  IF Cardinality(T) >= 2
        THEN LET hi == CHOOSE x \in T : \A y \in T : y <= x
                 lo == CHOOSE x \in T \ {hi} : \A y \in T \ {hi} : y <= x
             IN  {[rank |-> 5,
                   dice |-> [j \in 1..6 |-> IF j <= 3 THEN hi ELSE lo],
                   echo |-> 1]}
        ELSE {}
RuleQuadPair(s) ==
    {[rank |-> 6,
      dice |-> [j \in 1..6 |-> IF j <= 4 THEN qp[1] ELSE qp[2]],
      echo |-> 1] :
        qp \in {x \in Faces \X Faces :
                    /\ x[1] # x[2]
                    /\ Occurrences(s, x[1]) >= 4
                    /\ Occurrences(s, x[2]) >= 2}}
RuleSingle(s) ==
    {[rank |-> 12, dice |-> <<v>>, echo |-> 0] :
        v \in {w \in Faces : Occurrences(s, w) > 0
                             /\ \A u \in Faces : Occurrences(s, u) > 0 => u <= w}}
RuleCandidates(s) ==
    RuleKind(s, 6, 1, 4) \cup RuleStraight(s, 6, 2, 1)
    \cup RuleKind(s, 5, 3, 3) \cup RuleStraight(s, 5, 4, 0)
    \cup RuleTwoTriplets(s) \cup RuleQuadPair(s)
    \cup RuleKind(s, 4, 7, 2)
    \cup RuleStraight(s, 4, 8, 0) \cup RuleStraight(s, 3, 9, 0)
    \cup RuleKind(s, 3, 10, 1) \cup RuleKind(s, 2, 11, 0)
    \cup RuleSingle(s)

RECURSIVE Total(_)
Total(s) == IF Len(s) = 0 THEN 0 ELSE s[1] + Total([j \in 1..(Len(s) - 1) |-> s[j + 1]])
RuleKey(c) == <<Len(c.dice) + c.echo, Len(c.dice), Total(c.dice)>>
KeyLess(a, b) ==
    \/ a[1] < b[1]
    \/ a[1] = b[1] /\ a[2] < b[2]
    \/ a[1] = b[1] /\ a[2] = b[2] /\ a[3] < b[3]
IsBestIn(R, c) ==
    /\ c \in R
    /\ \A d \in R :
          /\ ~KeyLess(RuleKey(c), RuleKey(d))
          /\ RuleKey(d) = RuleKey(c) => c.rank <= d.rank

C4_Scenarios ==
    /\ cd_values = <<6, 6, 6, 6, 6, 2>> =>
          /\ Len(cd_combos) = 1
          /\ cd_combos[1].dice = <<6, 6, 6, 6, 6>>
          /\ cd_combos[1].echo_dice = 3
          /\ cd_combos[1].name = "Distressing"
          /\ <<Len(cd_combos[1].dice) + cd_combos[1].echo_dice,
               Len(cd_combos[1].dice), cd_combos[1].damage>> = <<8, 5, 30>>
    /\ cd_values = <<1, 2, 3, 4, 5, 6>> =>
          /\ Len(cd_combos) = 1
          /\ cd_combos[1].dice = <<1, 2, 3, 4, 5, 6>>
          /\ cd_combos[1].echo_dice = 1
          /\ cd_combos[1].name = "Surprising"
          /\ <<Len(cd_combos[1].dice) + cd_combos[1].echo_dice,
               Len(cd_combos[1].dice), cd_combos[1].damage>> = <<7, 6, 21>>

C4_Witness ==
    /\ cd_values \in {<<6, 6, 6, 6, 6, 2>>, <<1, 2, 3, 4, 5, 6>>}
    /\ Len(cd_combos) = 1
    /\ Len(cd_combos[1].dice) >= 5

\* =================================================================
\* Properties of calculate_damage (checked under SpecDamage)
\* =================================================================
RECURSIVE AllDice(_)
AllDice(insults) ==
    IF Len(insults) = 0 THEN <<>>
    ELSE insults[1].dice \o AllDice([k \in 1..(Len(insults) - 1) |-> insults[k + 1]])

\* C5: no attacker dice gives 0 whatever the defender holds; no defender
\* dice gives the sum of all attacker dice.
C5_EmptySides ==
    /\ AllDice(attacker_insults) = <<>> => unblocked_damage = 0
    /\ AllDice(defender_insults) = <<>> =>
          unblocked_damage = Total(AllDice(attacker_insults))

C5_Witness ==
    \/ /\ AllDice(defender_insults) = <<>>
       /\ Len(AllDice(attacker_insults)) = MaxAttackDice
       /\ unblocked_damage > 0

Assignments(att, def) ==
    {f \in [1..Len(att) -> 0..Len(def)] :
        /\ \A i \in 1..Len(att) : f[i] # 0 => def[f[i]] >= att[i]
        /\ \A i, k \in 1..Len(att) : (i # k /\ f[i] # 0) => f[i] # f[k]}
Unblocked(att, f) ==
    Total([i \in 1..Len(att) |-> IF f[i] = 0 THEN att[i] ELSE 0])
MinUnblocked(att, def) ==
    LET U == {Unblocked(att, f) : f \in Assignments(att, def)}
    IN  CHOOSE u \in U : \A w \in U : u <= w

\* C7: the value returned equals the minimum total unblocked damage over
\* all admissible assignments.
C7_GreedyOptimal ==
    unblocked_damage =
        MinUnblocked(AllDice(attacker_insults), AllDice(defender_insults))

TokenCounters ==
    {"forgiveness_tokens", "neurosis_tokens", "regret_tokens", "eureka_tokens",
     "breakthrough_tokens", "rehash_tokens", "fumble_shields"}

\* C9: the health of each player is within [0, MAX_HEALTH] in every
\* reachable state, and so is every value a take_damage or heal call wrote
\* to it during the step that led to the state (direct calls with
\* non-negative amounts, hook calls, and every mutation of play_debate).
C9_HealthInRange ==
    \A s \in 1..2 :
        /\ players[s].health \in 0..MAX_HEALTH
        /\ players[s].health_trace \subseteq 0..MAX_HEALTH

\* a clash has just dealt a player more damage than MAX_HEALTH: the health
\* stopped at 0
C9_Witness ==
    /\ pc = "win_check"
    /\ \E s \in 1..2 :
          /\ round_result[s].damage_from_opponent > MAX_HEALTH
          /\ players[s].health = 0
          /\ 0 \in players[s].health_trace

\* C10: every token counter of both players (forgiveness, neurosis, regret,
\* eureka, breakthrough, rehash, fumble-shield) is >= 0 in every state
\* reachable before and during play_debate.
C10_TokensNonNegative ==
    \A s \in 1..2 : \A t \in TokenCounters : players[s][t] >= 0

\* both players fumbled and the token processing ran: player 1 held two
\* neurosis tokens and lost one with 1 damage, player 2 held none and keeps 0
C10_Witness ==
    /\ pc = "win_check"
    /\ round_result[1].fumbled
    /\ round_result[2].fumbled
    /\ players[1].neurosis_tokens = 1
    /\ players[1].health = MAX_HEALTH - 1
    /\ players[2].neurosis_tokens = 0

\* the position of play_debate at which the round of player s is decided
BankPc(s) == IF s = 1 THEN "bank1" ELSE "bank2"

\* C11: when a player who holds r > 0 regret tokens fumbles a round, the
\* step of the fumble branch leaves the health at max(0, health - r) (written
\* by a take_damage call of that step), the regret counter at 0, and the
\* player's RoundResult fumbled with no banked combination.
C11_FumblePenalty ==
    [][\A s \in 1..2 :
          (/\ pc = BankPc(s)
           /\ pc' # pc
           /\ fumble[s]
           /\ players[s].regret_tokens > 0)
          => LET r == players[s].regret_tokens
                 h == players[s].health
                 left == IF h - r > 0 THEN h - r ELSE 0
             IN  /\ players'[s].health = left
                 /\ left \in players'[s].health_trace
                 /\ players'[s].regret_tokens = 0
                 /\ round_result'[s].fumbled
                 /\ round_result'[s].insults = <<>>
                 /\ round_result'[s].insults_banked_count = 0
                 /\ round_result'[s].total_damage = 0]_vars

\* player 2 gathered 3 regret tokens (UndueCertainty and PersecutoryDelusions)
\* at full health, rolled the 1 of a Catastrophize die and fumbled: 3 damage,
\* no regret left
C11_Witness ==
    /\ pc = "effects"
    /\ round_num = 0
    /\ round_result[2].fumbled
    /\ round_result[2].insults = <<>>
    /\ "set_aside_limit" \in players[2].totems
    /\ players[1].regret_tokens = 2
    /\ players[2].regret_tokens = 0
    /\ players[2].health = MAX_HEALTH - 3
    /\ players[2].health_trace = {MAX_HEALTH - 3}

\* C12: the step that leaves the win check reports the winner the healths
\* at the end of the round select: both <= 0 is a tie, exactly one <= 0 makes
\* the other player win; with both alive the debate goes on below the round
\* cap, and at the cap the strictly higher health wins and equal health ties.
C12_WinnerFollowsCheck ==
    [][(pc = "win_check" /\ pc' # pc)
          => LET h1 == players[1].health
                 h2 == players[2].health
             IN  IF h1 <= 0 /\ h2 <= 0 THEN pc' = "done" /\ winner' = "Tie"
                 ELSE IF h1 <= 0 THEN pc' = "done" /\ winner' = "p2"
                 ELSE IF h2 <= 0 THEN pc' = "done" /\ winner' = "p1"
                 ELSE IF round_num + 1 < max_rounds THEN pc' = "roll1" /\ winner' = "none"
                 ELSE /\ pc' = "done"
                      /\ winner' = (IF h1 > h2 THEN "p1" ELSE IF h2 > h1 THEN "p2" ELSE "Tie")
                      /\ players'[1].health = h1
                      /\ players'[2].health = h2]_vars

\* the round cap was reached with both players alive and hurt, player 2
\* the healthier: player 2 is the winner
C12_Witness ==
    /\ pc = "done"
    /\ round_num + 1 = max_rounds
    /\ players[1].health > 0
    /\ players[1].health < players[2].health
    /\ players[2].health < MAX_HEALTH
    /\ winner = "p2"

\* the place of a position in the pass of the for loop it belongs to
PcRank(p) ==
    CASE p = "roll1" -> 0
      [] p = "roll2" -> 1
      [] p = "after_roll" -> 2
      [] p = "fumble_check" -> 3
      [] p = "bank1" -> 4
      [] p = "bank2" -> 5
      [] p = "effects" -> 6
      [] p = "clash" -> 7
      [] p = "win_check" -> 8

\* the number of steps a call under way can still take at most
StepsLeft(p, n, cap) == IF p = "done" THEN 0 ELSE (cap - n) * 9 - PcRank(p)

\* C13: a play_debate call returns after at most max_rounds rounds. The
\* round in progress is always one of the max_rounds passes of the loop;
\* every step of a call under way strictly decreases a count that starts at
\* 9 * max_rounds and never goes below 0, so the call reaches its return;
\* a win check that finds a player at health <= 0 is followed by the return
\* and by no further round; and from the rounds.extend of a round on, the
\* rounds list holds two RoundResults for each round played.
C13_Terminates ==
    /\ [](round_num + 1 <= max_rounds)
    /\ [](pc # "start" => StepsLeft(pc, round_num, max_rounds) >= 0)
    /\ [][(pc # "start" /\ pc' # pc)
             => StepsLeft(pc', round_num', max_rounds')
                    < StepsLeft(pc, round_num, max_rounds)]_vars
    /\ [](pc \in {"effects", "clash", "win_check", "done"}
            => rounds_len = 2 * (round_num + 1))
    /\ [](pc \in {"roll1", "roll2", "after_roll", "fumble_check", "bank1", "bank2"}
            => rounds_len = 2 * round_num)
    /\ [][(pc = "win_check" /\ (players[1].health <= 0 \/ players[2].health <= 0))
             => (pc' = "done" /\ round_num' = round_num /\ rounds_len' = rounds_len)]_vars

\* a debate returned after all of its max_rounds > 1 rounds, with two
\* RoundResults for each
C13_Witness ==
    /\ pc = "done"
    /\ max_rounds > 1
    /\ round_num + 1 = max_rounds
    /\ rounds_len = 2 * max_rounds

\* health - amount, stopped at 0
Reduced(health, amount) == IF health - amount > 0 THEN health - amount ELSE 0

\* the clash step of a round in which neither player fumbled
BothBankedClash ==
    /\ pc = "clash"
    /\ pc' # pc
    /\ ~round_result[1].fumbled
    /\ ~round_result[2].fumbled

\* the number of players whose penance_double_active flag is set
PenanceFlags == Cardinality({s \in 1..2 : players[s].penance_double_active})

ClashStep == pc = "clash" /\ pc' # pc

\* health + amount, stopped at MAX_HEALTH
Raised(health, amount) ==
    IF health + amount < MAX_HEALTH THEN health + amount ELSE MAX_HEALTH

\* C15: a player who fumbled deals no clash damage. When exactly one player
\* fumbled, the health of the other is left alone by the clash step and the
\* fumbler is hit by the resolver's result for the other's insults against
\* no defender dice (doubled when the attacker's penance flag is set); when
\* both fumbled no clash damage is recorded and the healths change only by
\* what the neurosis and forgiveness tokens of the token processing do.
C15_FumblerDealsNothing ==
    [][ClashStep =>
          \A s \in 1..2 :
             LET o == 3 - s
                 lone == (IF players[o].penance_double_active THEN 2 ELSE 1)
                            * calculate_damage(round_result[o].insults, <<>>)
                 stung == Reduced(players[s].health,
                                  IF players[s].neurosis_tokens > 0 THEN 1 ELSE 0)
             IN  /\ (round_result[s].fumbled /\ ~round_result[o].fumbled)
                       => /\ round_result'[s].damage_to_opponent = 0
                          /\ round_result'[o].damage_from_opponent = 0
                          /\ players'[o].health = players[o].health
                          /\ round_result'[o].damage_to_opponent = lone
                          /\ round_result'[s].damage_from_opponent = lone
                          /\ players'[s].health = Reduced(players[s].health, lone)
                 /\ (round_result[s].fumbled /\ round_result[o].fumbled)
                       => /\ round_result'[s].damage_to_opponent = 0
                          /\ round_result'[s].damage_from_opponent = 0
                          /\ players'[s].health =
                                Raised(stung, IF players[s].forgiveness_tokens > 0 THEN 1 ELSE 0)]_vars

\* player 2 fumbled and player 1 banked: player 1 kept full health and
\* player 2 took the whole of player 1's insults
C15_Witness ==
    /\ pc = "win_check"
    /\ round_result[2].fumbled
    /\ ~round_result[1].fumbled
    /\ round_result[1].total_damage > 0
    /\ round_result[2].damage_from_opponent = round_result[1].total_damage
    /\ round_result[2].damage_to_opponent = 0
    /\ players[1].health = MAX_HEALTH
    /\ players[2].health = MAX_HEALTH - round_result[1].total_damage


\* C16 as stated: in every round of play_debate where neither player fumbled
\* the token cascade follows the clash: the effects queued this round land,
\* each player who then holds a neurosis token takes 1 self-damage and loses
\* exactly one neurosis token, and each player who holds a forgiveness token
\* heals 1 and loses exactly one forgiveness token.
C16_CascadeAfterClash ==
    [][BothBankedClash =>
          \A s \in 1..2 :
              LET q == round_result[3 - s].special_effects
                  n == players[s].neurosis_tokens + q.opp_neurosis
                  f == players[s].forgiveness_tokens
                  hit == Reduced(Reduced(players[s].health,
                                         round_result'[s].damage_from_opponent),
                                 q.opp_damage)
              IN  /\ n > 0 => players'[s].neurosis_tokens = n - 1
                  /\ f > 0 => players'[s].forgiveness_tokens = f - 1
                  /\ players'[s].health =
                         Raised(Reduced(hit, IF n > 0 THEN 1 ELSE 0),
                                IF f > 0 THEN 1 ELSE 0)]_vars

\* C17 as stated: when play_debate returns, by a knock-out, a double
\* knock-out or the round cap, both players hold 0 neurosis tokens and 0
\* forgiveness tokens.
C17_TokensClearedAtReturn ==
    [][(pc = "win_check" /\ pc' = "done") =>
          \A s \in 1..2 : /\ players'[s].neurosis_tokens = 0
                          /\ players'[s].forgiveness_tokens = 0]_vars

\* C18 as stated: at the fumble check a forced-fumble condition of a player
\* who holds bust-protection does not fumble the round and consumes the
\* protection (it is false afterwards); without bust-protection the round is
\* fumbled.
C18_BustProtectionConsumed ==
    [][(pc = "fumble_check" /\ pc' # pc) =>
          \A s \in 1..2 :
              effects[s].force_fumble # 0 =>
                  IF players[s].bust_protection
                  THEN ~fumble'[s] /\ ~players'[s].bust_protection
                  ELSE fumble'[s]]_vars

\* the number of entries of a pool that carry a value (neither -1 nor None)
NonBlankCount(values) == Cardinality({i \in 1..Len(values) : ~IsBlankValue(values[i])})

\* C19 as stated: no round banks more than two combinations, and no second
\* combination is banked when fewer than four non-blank values remained in
\* the pool after the first.
C19_StopRule ==
    \A s \in 1..2 :
        LET t == round_result[s].bank_trace
        IN  /\ Len(t) <= 2
            /\ Len(round_result[s].insults) <= 2
            /\ Len(t) = 2 => NonBlankCount(t[1].pool_after) >= 4

\* s's banking step of a round in which s did not fumble
BankStep(s) == pc = BankPc(s) /\ pc' # pc /\ ~fumble[s]

\* C20: during _bank_from_live_pool the number of live pool entries never
\* increases, and each banking iteration removes from the pool exactly one
\* entry per die value of the combination it chose: the pool after the
\* iteration is the pool before it less one entry of each chosen value, the
\* next iteration starts from that pool, and the pool the call leaves is the
\* one its last iteration left.
C20_PoolShrinks ==
    /\ [](\A s \in 1..2 :
             LET t == round_result[s].bank_trace
             IN  \A k \in 1..Len(t) :
                     /\ Len(t[k].chosen) >= 1
                     /\ Len(t[k].pool_after) = Len(t[k].pool_before) - Len(t[k].chosen)
                     /\ \A v \in Faces \cup {Blank, NoneVal} :
                            Occurrences(t[k].pool_after, v) =
                                Occurrences(t[k].pool_before, v) - Occurrences(t[k].chosen, v)
                     /\ k > 1 => t[k].pool_before = t[k - 1].pool_after)
    /\ [][\A s \in 1..2 :
              BankStep(s) =>
                  LET t == round_result'[s].bank_trace
                  IN  /\ Len(pool'[s]) <= Len(pool[s])
                      /\ IF t = <<>>
                         THEN pool'[s] = pool[s]
                         ELSE /\ t[1].pool_before = PoolValues(pool[s])
                              /\ t[Len(t)].pool_after = PoolValues(pool'[s])]_vars

\* a round in which a player banked twice from a pool of five entries, a
\* single die each time, and left three entries in the pool
C20_Witness ==
    /\ pc = "bank2"
    /\ Len(round_result[1].bank_trace) = 2
    /\ Len(round_result[1].bank_trace[1].pool_before) = 5
    /\ Len(round_result[1].bank_trace[1].chosen) = 1
    /\ Len(round_result[1].bank_trace[2].chosen) = 1
    /\ Len(pool[1]) = 3

\* the players with every raising entry of their emotion lists replaced by
\* a plain Emotion, whose hooks do nothing
Calm(pl) ==
    [s \in 1..2 |->
        [pl[s] EXCEPT !.emotions =
            [k \in 1..Len(pl[s].emotions) |->
                IF HookRaises(pl[s].emotions[k]) THEN "Emotion" ELSE pl[s].emotions[k]]]]

\* C21: a hook that raises during an invocation made by play_debate
\* (on_debate_start, on_after_roll, on_fumble, on_debate_end) aborts neither
\* the round nor the debate: play_debate is never left by an exception, and
\* each step that invokes hooks moves on to the step that follows it and
\* leaves what it would leave if the raising hooks did nothing (the hooks
\* after a raising one and the rest of the step still run).
C21_HooksIsolated ==
    /\ [](pc # "raised")
    /\ [][(pc = "start" /\ pc' # pc) =>
              (pc' = "roll1" /\ Calm(players') = Calm(ClearTrace(players)))]_vars
    /\ [][(pc = "after_roll" /\ pc' # pc) =>
              /\ pc' = "fumble_check"
              /\ \E nv1 \in Rerolls(players[1], pool[1]), nv2 \in Rerolls(players[2], pool[2]) :
                    \E a \in {AfterRollHooksFrom(
                                  Normal(<<Calm(ClearTrace(players)), pool[1]>>), 1, 1, nv1)} :
                    \E b \in {AfterRollHooksFrom(
                                  Normal(<<a.state[1], pool[2]>>), 2, 1, nv2)} :
                        /\ Calm(players') = b.state[1]
                        /\ pool' = <<a.state[2], b.state[2]>>]_vars
    /\ [][\A s \in 1..2 :
              (pc = BankPc(s) /\ pc' # pc /\ fumble[s]) =>
                  /\ pc' = (IF s = 1 THEN "bank2" ELSE "effects")
                  /\ round_result'[s].fumbled
                  /\ Calm(players') = fumble_branch(Calm(ClearTrace(players)), s).players]_vars
    /\ [][(pc = "win_check" /\ pc' # pc /\ knockout_winner(players) = "none"
               /\ round_num + 1 >= max_rounds) =>
              /\ pc' = "done"
              /\ \E h \in {DebateEndHooksFrom(
                               DebateEndHooksFrom(Normal(Calm(ClearTrace(players))), 1, 1),
                               2, 1)} :
                    /\ winner' = health_winner(h.state)
                    /\ Calm(players') =
                           [s \in 1..2 |-> [h.state[s] EXCEPT !.neurosis_tokens = 0,
                                                              !.forgiveness_tokens = 0]]]_vars

\* player 2 fumbled in the first round: the first on_fumble hook of player 1
\* raised, the Schadenfreude after it still gave player 1 a eureka token, and
\* the round went on to the special effects
C21_Witness ==
    /\ pc = "effects"
    /\ round_num = 0
    /\ round_result[2].fumbled
    /\ Len(players[1].emotions) = 2
    /\ HookRaises(players[1].emotions[1])
    /\ players[1].emotions[2] = "Schadenfreude"
    /\ players[1].eureka_tokens = 1

\* the classes of the dice of player s, in list order
DiceKinds(s) == [i \in 1..Len(players[s].dice) |-> die_kind[players[s].dice[i]]]

\* C22 as stated: players created from the same archetype template own
\* independent die instances: rolling one player's dice leaves the
\* last-rolled value of every die of the other player unchanged.
C22_IndependentDice ==
    [][\A s \in 1..2 :
          (pc = (IF s = 1 THEN "roll1" ELSE "roll2") /\ pc' # pc
               /\ archetype[1] = archetype[2] /\ DiceKinds(1) = DiceKinds(2)) =>
              \A i \in 1..Len(players[3 - s].dice) :
                  last_value'[players[3 - s].dice[i]] = last_value[players[3 - s].dice[i]]]_vars

\* the places of a pool that hold the highest positive value of the pool
TopEntries(p) ==
    {j \in 1..Len(p) : p[j][1] > 0 /\ \A k \in 1..Len(p) : p[k][1] <= p[j][1]}

\* the pools a steal may leave: one entry holding the highest positive value
\* of the pool stolen from moves, with its source die, to the end of the
\* stealing player's pool
Stolen(from, to) ==
    {[from |-> RemoveAt(from, i), to |-> Append(to, from[i])] : i \in TopEntries(from)}

\* the step of a round between the after-roll hooks and the banking
StealStep == pc = "fumble_check" /\ pc' # pc

\* the flag of player s after the step when the steal cleared it: set again
\* only by two sixes on the paired dice this round
NewFlag(s) == effects[s].pilfer_six >= 2

\* C23 as stated: a player who starts the round with the pending steal flag
\* takes, before the banking, exactly one entry holding the highest positive
\* value of the opponent's pool, which is appended with its source die to the
\* player's own pool; the flag is cleared, and the number of entries over
\* both pools does not change (player 1 steals first, then player 2).
C23_Original ==
    [][StealStep =>
          /\ \E a \in (IF players[1].pending_pilfer_next_round
                       THEN Stolen(pool[2], pool[1])
                       ELSE {[from |-> pool[2], to |-> pool[1]]}) :
             \E b \in (IF players[2].pending_pilfer_next_round
                       THEN Stolen(a.to, a.from)
                       ELSE {[from |-> a.to, to |-> a.from]}) :
                 pool' = <<b.from, b.to>>
          /\ \A s \in 1..2 : players[s].pending_pilfer_next_round =>
                                 players'[s].pending_pilfer_next_round = NewFlag(s)
          /\ Len(pool'[1]) + Len(pool'[2]) = Len(pool[1]) + Len(pool[2])]_vars

\* what the steal of a flagged player leaves when the pool stolen from may
\* hold no positive value, or nothing at all
StolenIfAny(from, to) ==
    IF TopEntries(from) = {} THEN {[from |-> from, to |-> to]} ELSE Stolen(from, to)

\* C23 amended: if the opponent's pool holds a positive value, one entry
\* holding its highest positive value moves to the flagged player's pool and
\* the flag is cleared; if it holds entries but no positive value, nothing
\* moves and the flag is cleared; if it is empty, nothing moves and the flag
\* stays set. The number of entries over both pools does not change.
C23_Amended ==
    [][StealStep =>
          /\ \E a \in (IF players[1].pending_pilfer_next_round
                       THEN StolenIfAny(pool[2], pool[1])
                       ELSE {[from |-> pool[2], to |-> pool[1]]}) :
             \E b \in (IF players[2].pending_pilfer_next_round
                       THEN StolenIfAny(a.to, a.from)
                       ELSE {[from |-> a.to, to |-> a.from]}) :
                 /\ pool' = <<b.from, b.to>>
                 /\ players[1].pending_pilfer_next_round =>
                        players'[1].pending_pilfer_next_round = (NewFlag(1) \/ pool[2] = <<>>)
                 /\ players[2].pending_pilfer_next_round =>
                        players'[2].pending_pilfer_next_round = (NewFlag(2) \/ a.to = <<>>)
          /\ Len(pool'[1]) + Len(pool'[2]) = Len(pool[1]) + Len(pool[2])]_vars

\* both players held the flag in the second round: player 1 rolled 1 and 6,
\* player 2 rolled 2 and 3 (the last values of the shared dice); player 1
\* took the 3, then player 2 took the 6, and both flags are cleared
C23_Witness ==
    /\ pc = "bank1"
    /\ round_num = 1
    /\ last_value = <<2, 3>>
    /\ PoolValues(pool[1]) = <<1, 3>>
    /\ PoolValues(pool[2]) = <<2, 6>>
    /\ ~players[1].pending_pilfer_next_round
    /\ ~players[2].pending_pilfer_next_round

\* C24: a steal flag set in round r moves no die in round r: in the step
\* that sets it a player who did not hold the flag before gains no pool
\* entry (and no entry moves at all when neither held it), and outside that
\* step no flag changes, so the flag waits for the steal step of round r+1;
\* there a flagged player gains at most one entry, and once the opponent's
\* pool was not empty the flag is set afterwards only if this round's
\* paired dice set it anew: each set flag causes at most one steal.
C24_StealNextRound ==
    /\ [][StealStep =>
              /\ (~players[1].pending_pilfer_next_round
                      /\ ~players[2].pending_pilfer_next_round) => pool' = pool
              /\ \A s \in 1..2 :
                    /\ ~players[s].pending_pilfer_next_round =>
                           /\ Len(pool'[s]) <= Len(pool[s])
                           /\ players'[s].pending_pilfer_next_round = NewFlag(s)
                    /\ Len(pool'[s]) <= Len(pool[s]) + 1
                    /\ Len(pool'[s]) > Len(pool[s]) =>
                           /\ players[s].pending_pilfer_next_round
                           /\ players'[s].pending_pilfer_next_round = NewFlag(s)]_vars
    /\ [][pc # "fumble_check" =>
              /\ \A s \in 1..2 : players'[s].pending_pilfer_next_round =
                                     players[s].pending_pilfer_next_round
              /\ \A s \in 1..2 : Len(pool'[s]) > Len(pool[s]) =>
                                     pc = (IF s = 1 THEN "roll1" ELSE "roll2")]_vars

\* player 1 rolled two sixes on the paired dice of the first round and took
\* nothing then; in the second round the opponent's 6 came over before the
\* banking and the flag is cleared
C24_Witness ==
    /\ pc = "bank1"
    /\ round_num = 1
    /\ die_kind = <<"Pilfer", "Pilfer", "Apathetic">>
    /\ Len(pool[1]) = 3
    /\ pool[1][3] = <<6, 3>>
    /\ pool[2] = <<>>
    /\ ~players[1].pending_pilfer_next_round

\* the roll step of player s
RollStep(s) == pc = (IF s = 1 THEN "roll1" ELSE "roll2") /\ pc' # pc

\* q extends p at the end
IsPrefix(p, q) == Len(p) <= Len(q) /\ SubSeq(q, 1, Len(p)) = p

CascadeStep ==
    /\ ClashStep
    /\ round_result[1].fumbled
    /\ round_result[2].fumbled

\* C26: in the token processing the opponent's queued opp_damage lands first,
\* then the neurosis step takes 1 health, then the forgiveness step gives 1
\* back; each intermediate health is one the player really had, and a player
\* at full health who holds one neurosis and one forgiveness token goes
\* through MAX_HEALTH - 1 and ends the processing at MAX_HEALTH with neither
\* token left.
C26_NeurosisBeforeForgiveness ==
    [][CascadeStep =>
          \A s \in 1..2 :
              LET q == round_result[3 - s].special_effects
                  n == players[s].neurosis_tokens + q.opp_neurosis
                  f == players[s].forgiveness_tokens
                  hit == Reduced(players[s].health, q.opp_damage)
                  stung == Reduced(hit, IF n > 0 THEN 1 ELSE 0)
              IN  /\ q.opp_damage > 0 => hit \in players'[s].health_trace
                  /\ n > 0 => stung \in players'[s].health_trace
                  /\ players'[s].health = Raised(stung, IF f > 0 THEN 1 ELSE 0)
                  /\ (players[s].health = MAX_HEALTH /\ q.opp_damage = 0 /\ n = 1 /\ f = 1)
                        => /\ players'[s].health = MAX_HEALTH
                           /\ MAX_HEALTH - 1 \in players'[s].health_trace
                           /\ players'[s].neurosis_tokens = 0
                           /\ players'[s].forgiveness_tokens = 0]_vars

\* both players fumbled the first round and a player who entered it at full
\* health with a neurosis and a forgiveness token is back at full health,
\* having been at MAX_HEALTH - 1, with both tokens spent
C26_Witness ==
    /\ pc = "win_check"
    /\ round_num = 0
    /\ round_result[1].fumbled
    /\ round_result[2].fumbled
    /\ \E s \in 1..2 :
          /\ players[s].emotions = <<"SuperegoShield", "Schadenfreude">>
          /\ players[s].health = MAX_HEALTH
          /\ players[s].health_trace = {MAX_HEALTH - 1, MAX_HEALTH}
          /\ players[s].neurosis_tokens = 0
          /\ players[s].forgiveness_tokens = 0
          /\ players[s].regret_tokens = 0

\* C27 as stated: in a round where at least one player fumbled the clash
\* step applies no token processing: each player's health changes only by
\* the clash damage recorded for them, and the neurosis, forgiveness and
\* regret counters are the ones the players had before the step.
C27_NoCascadeAfterFumble ==
    [][(ClashStep /\ (round_result[1].fumbled \/ round_result[2].fumbled)) =>
          \A s \in 1..2 :
              /\ players'[s].health =
                    Reduced(players[s].health, round_result'[s].damage_from_opponent)
              /\ players'[s].neurosis_tokens = players[s].neurosis_tokens
              /\ players'[s].forgiveness_tokens = players[s].forgiveness_tokens
              /\ players'[s].regret_tokens = players[s].regret_tokens]_vars

\* the factor a direction of the damage exchange is multiplied by when the
\* flag of the player who deals and the flag of the player who receives each
\* double it
BothFlagsFactor(dealer, receiver) ==
    (IF players[dealer].penance_double_active THEN 2 ELSE 1)
        * (IF players[receiver].penance_double_active THEN 2 ELSE 1)

\* C28 as stated: in every damage exchange the damage a player who banked
\* deals is the resolver's total for their insults against the opponent's
\* insults (none when the opponent fumbled), doubled once when the dealing
\* player's penance_double_active flag is set and once when the receiving
\* player's flag is set; the factor multiplies the resolver's total.
C28_DoublesBothDirections ==
    [][ClashStep =>
          \A s \in 1..2 :
              LET o == 3 - s
                  defence == IF round_result[o].fumbled THEN <<>> ELSE round_result[o].insults
                  total == calculate_damage(round_result[s].insults, defence)
              IN  ~round_result[s].fumbled =>
                     /\ round_result'[s].damage_to_opponent = BothFlagsFactor(s, o) * total
                     /\ round_result'[o].damage_from_opponent = BothFlagsFactor(s, o) * total
                     /\ players'[o].health =
                           Reduced(players[o].health, BothFlagsFactor(s, o) * total)]_vars

\* player s's banking took an entry of an Apathetic die from their pool
ApatheticConsumed(s) ==
    \E i \in 1..Len(pool[s]) :
        /\ pool[s][i][2] # 0
        /\ die_kind[pool[s][i][2]] = "Apathetic"
        /\ \A j \in 1..Len(pool'[s]) : pool'[s][j] # pool[s][i]

\* C29 as stated: a banking call that consumed an Apathetic die raises the
\* player's health by 2, stopped at MAX_HEALTH, and that is the whole gain of
\* the round: the later "Apply special effects" step, which reads the heal
\* the banking recorded, does not raise the health of that player again.
C29_HealsOnce ==
    [][\A s \in 1..2 :
          /\ (BankStep(s) /\ ApatheticConsumed(s) /\ archetype[s] = "Archetype")
                 => players'[s].health = Raised(players[s].health, 2)
          /\ (pc = "effects" /\ pc' # pc /\ round_result[s].special_effects.damage = 0)
                 => players'[s].health = players[s].health]_vars

\* the place of entry i among the entries of p that hold the same value
SameValueRank(p, i) == Cardinality({j \in 1..i : p[j][1] = p[i][1]})

\* the place in p of the n-th entry that holds value v
NthWithValue(p, v, n) ==
    CHOOSE i \in 1..Len(p) : p[i][1] = v /\ SameValueRank(p, i) = n

\* the entries of p from place i on, without the first taken[v] entries of
\* each value v
RECURSIVE LaterEntries(_, _, _)
LaterEntries(p, i, taken) ==
    IF i > Len(p) THEN <<>>
    ELSE (IF SameValueRank(p, i) > taken[p[i][1]] THEN <<p[i]>> ELSE <<>>)
            \o LaterEntries(p, i + 1, taken)

\* how often value v was chosen by the passes of a banking call
TimesChosen(t, v) == SumSeq([k \in 1..Len(t) |-> CountOf(t[k].chosen, v)])

\* C30: for each value of the combination a pass of the banking loop chose,
\* the entry taken from the pool is the first one, in pool order, that holds
\* the value, and the source recorded for it is that entry's die (0 for an
\* echo): the k-th source of the first pass is the die of the n-th entry
\* with the k-th value, n being the number of times the value occurs among
\* the first k chosen values; and the pool the call leaves is the pool it
\* was given without the first entries of each value, as many as the value
\* was chosen, the later entries of the value staying in place and in order.
C30_FirstMatchRemoved ==
    [][\A s \in 1..2 :
          BankStep(s) =>
              LET t == round_result'[s].bank_trace
                  taken == [v \in Faces \cup {Blank, NoneVal} |-> TimesChosen(t, v)]
              IN  /\ pool'[s] = LaterEntries(pool[s], 1, taken)
                  /\ t # <<>> =>
                        /\ Len(t[1].used_sources) = Len(t[1].chosen)
                        /\ \A k \in 1..Len(t[1].chosen) :
                              t[1].used_sources[k] =
                                  pool[s][NthWithValue(pool[s], t[1].chosen[k],
                                              CountOf(SubSeq(t[1].chosen, 1, k),
                                                      t[1].chosen[k]))][2]]_vars

\* player 1 rolled 3, 1, 2, 3 with four dice and banked the straight 1, 2, 3:
\* the 3 of the first die was taken, with that die as its source, and the 3
\* of the fourth die is still in the pool
C30_Witness ==
    /\ pc = "bank2"
    /\ Len(players[1].dice) = 4
    /\ Len(round_result[1].bank_trace) = 1
    /\ round_result[1].bank_trace[1].pool_before = <<3, 1, 2, 3>>
    /\ round_result[1].bank_trace[1].chosen = <<1, 2, 3>>
    /\ round_result[1].bank_trace[1].used_sources = <<2, 3, 1>>
    /\ pool[1] = << <<3, 4>> >>

\* pass k of a banking call took no entry of a Grounded die, and the player
\* has no Abyssal die: the only bank-time effect that can lengthen the
\* combination of the pass is the High-Minded raise
OnlyRaiseCanLengthen(s, pass) ==
    /\ ~AnySource(pass.used_sources, die_kind, {"Grounded"})
    /\ \A i \in 1..Len(players[s].dice) : die_kind[players[s].dice[i]] # "Abyssal"

\* a High-Minded die taken by the pass contributed the value 6 to it
HighMindedGaveSix(pass) ==
    \E i \in 1..Len(pass.used_sources) :
        /\ pass.used_sources[i] # 0
        /\ die_kind[pass.used_sources[i]] = "HighMinded"
        /\ pass.chosen[i] = 6

\* C31 as stated: a banked combination is raised (a duplicate of its last
\* value appended) only when a High-Minded die it consumed contributed the
\* value 6: a combination whose High-Minded dice contributed other values
\* is banked with the dice the pass chose.
C31_RaiseOnlyOnSix ==
    [][\A s \in 1..2 :
          BankStep(s) =>
              LET t == round_result'[s].bank_trace
              IN  \A k \in 1..Len(t) :
                      (OnlyRaiseCanLengthen(s, t[k]) /\ ~HighMindedGaveSix(t[k]))
                          => Len(round_result'[s].insults[k].dice) = Len(t[k].chosen)]_vars

\* the four humor buckets
Humors == {"sanguine", "phlegmatic", "melancholic", "choleric"}

\* the sum of the values pass took from dice of bucket h, from place i on
RECURSIVE PassBucket(_, _, _)
PassBucket(pass, h, i) ==
    IF i > Len(pass.chosen) THEN 0
    ELSE (IF /\ pass.used_sources[i] # 0
             /\ HumorBucket(die_kind[pass.used_sources[i]]) = h
          THEN pass.chosen[i] ELSE 0)
         + PassBucket(pass, h, i + 1)

\* the summed value of bucket h over the passes of a banking call, from pass k on
RECURSIVE BucketTotal(_, _, _)
BucketTotal(t, h, k) ==
    IF k > Len(t) THEN 0 ELSE PassBucket(t[k], h, 1) + BucketTotal(t, h, k + 1)

\* the places of the banked combinations whose value is no longer the value
\* the pass took from a Phlegmatic die
RerolledPlaces(rr) ==
    {<<k, i>> \in (1..Len(rr.bank_trace)) \X (1..6) :
        /\ i <= Len(rr.bank_trace[k].chosen)
        /\ rr.bank_trace[k].used_sources[i] # 0
        /\ die_kind[rr.bank_trace[k].used_sources[i]] = "Phlegmatic"
        /\ rr.insults[k].dice[i] # rr.bank_trace[k].chosen[i]}

\* the bucket effects the banking step of player s shows in the next state
EffectsSeen(s) ==
    {h \in Humors :
        \/ h = "sanguine" /\ players'[s].health # players[s].health
        \/ h = "melancholic" /\ round_result'[s].special_effects.opp_neurosis # 0
        \/ h = "choleric" /\ round_result'[s].special_effects.opp_regret # 0
        \/ h = "phlegmatic" /\ RerolledPlaces(round_result'[s]) # {}}

\* each bucket effect is applied once: heal 1, one neurosis token, two regret
\* tokens, one rerolled value
EffectsOnce(s) ==
    /\ players'[s].health \in {players[s].health, heal(players[s].health, 1)}
    /\ round_result'[s].special_effects.opp_neurosis \in {0, 1}
    /\ round_result'[s].special_effects.opp_regret \in {0, 2}
    /\ Cardinality(RerolledPlaces(round_result'[s])) <= 1

\* the effects of the buckets of tied are all there (the reroll may give the
\* value the die already had)
EffectsShared(s, tied) ==
    /\ "sanguine" \in tied => players'[s].health = heal(players[s].health, 1)
    /\ "melancholic" \in tied => round_result'[s].special_effects.opp_neurosis = 1
    /\ "choleric" \in tied => round_result'[s].special_effects.opp_regret = 2

HumorRule(s, t) ==
    LET top == SetMax({BucketTotal(t, h, 1) : h \in Humors})
        tied == {h \in Humors : BucketTotal(t, h, 1) = top}
    IN  /\ EffectsSeen(s) \subseteq tied
        /\ EffectsSeen(s) # {} => top > 0
        /\ Cardinality(EffectsSeen(s)) <= 2
        /\ EffectsOnce(s)
        /\ (top > 0 /\ Cardinality(tied) <= 2) => EffectsShared(s, tied)

\* C32: the banking call of a Temperance or Physiognomist player resolves the
\* humors once, after its last pass: a bucket effect shows only for a bucket
\* whose summed value over all passes is the maximum of the four and above 0,
\* each effect shows once (not once per combination), at most two effects
\* show, and when at most two buckets hold the maximum all of them take effect.
C32_HumorResolution ==
    [][\A s \in 1..2 :
          (BankStep(s) /\ archetype[s] \in {"Temperance", "Physiognomist"})
              => HumorRule(s, round_result'[s].bank_trace)]_vars

\* a Temperance player banked two combinations, each with a value of a
\* Melancholic die; the bucket won and gave one neurosis token, not two
C32_Witness ==
    /\ pc = "bank2"
    /\ archetype[1] = "Temperance"
    /\ Len(round_result[1].bank_trace) = 2
    /\ \A k \in 1..2 : AnySource(round_result[1].bank_trace[k].used_sources,
                                  die_kind, {"Melancholic"})
    /\ round_result[1].special_effects.opp_neurosis = 1

\* the players with every emotion whose on_after_roll raises replaced by a
\* plain Emotion, whose hooks do nothing
Quiet(pl) ==
    [s \in 1..2 |->
        [pl[s] EXCEPT !.emotions =
            [k \in 1..Len(pl[s].emotions) |->
                IF AfterRollRaises(pl[s].emotions[k]) THEN "Emotion" ELSE pl[s].emotions[k]]]]

\* C33 as stated: an on_after_roll hook that fails leaves the state as if it
\* had not run: the after-roll step leaves the players (health, tokens,
\* totems) and the two pools as the same step does when the failing hooks are
\* replaced by hooks that do nothing.
C33_FailedHookNoEffect ==
    [][(pc = "after_roll" /\ pc' # pc) =>
          \E nv1 \in Rerolls(players[1], pool[1]), nv2 \in Rerolls(players[2], pool[2]) :
              \E a \in {AfterRollHooksFrom(
                            Normal(<<Quiet(ClearTrace(players)), pool[1]>>), 1, 1, nv1)} :
              \E b \in {AfterRollHooksFrom(
                            Normal(<<a.state[1], pool[2]>>), 2, 1, nv2)} :
                  /\ Quiet(players') = b.state[1]
                  /\ pool' = <<a.state[2], b.state[2]>>]_vars

\* a player without the two token counters the return at the round cap
\* clears, and without the recorded healths
WithoutDebateTokens(P) ==
    [P EXCEPT !.neurosis_tokens = 0, !.forgiveness_tokens = 0, !.health_trace = {}]

\* C34 as stated: the step by which play_debate returns, by a knock-out or at
\* the round cap, leaves the players as one pass of the on_debate_end hooks
\* (player 1's, then player 2's) leaves them, and no earlier step undoes what
\* on_debate_end undoes (the placebo tokens are held until then). No emotion
\* overrides on_debate_start, so the hooks at the start leave nothing to see.
C34_DebateEndHooksRun ==
    [][/\ (pc = "win_check" /\ pc' = "done") =>
              \E h \in {DebateEndHooksFrom(
                            DebateEndHooksFrom(Normal(players), 1, 1), 2, 1)} :
                  \A s \in 1..2 :
                      WithoutDebateTokens(players'[s]) = WithoutDebateTokens(h.state[s])
       /\ (pc # "start" /\ pc' \notin {"done", "raised"}) =>
              \A s \in 1..2 : players'[s].placebo_tokens >= players[s].placebo_tokens]_vars

\* C35 as stated: in a round where neither player fumbled, the clash step
\* takes from the opponent's health the clash damage and 1 more for each 6
\* the player rolled on a Spite die in the round (the opp_damage the roll
\* effects of the round hold).
C35_SpiteBonus ==
    [][BothBankedClash =>
          \A s \in 1..2 :
              effects[s].opp_damage > 0 =>
                  players'[3 - s].health =
                      Reduced(players[3 - s].health,
                              round_result'[3 - s].damage_from_opponent
                                  + effects[s].opp_damage)]_vars

\* C36: every combination of the RoundResult a banking call returns has at
\* least one die value and a damage equal to the sum of its dice values, also
\* where a bank-time modifier appended a value or the humor step rerolled
\* one; total_damage is the sum of the damages of the combinations.
C36_DamageIsSum ==
    [][\A s \in 1..2 :
          BankStep(s) =>
              LET ins == round_result'[s].insults
              IN  /\ \A k \in 1..Len(ins) :
                        /\ Len(ins[k].dice) >= 1
                        /\ ins[k].damage = SumSeq(ins[k].dice)
                  /\ round_result'[s].total_damage
                        = SumSeq([k \in 1..Len(ins) |-> SumSeq(ins[k].dice)])]_vars

\* a banking call returned a combination with one value more than the pass
\* took from the pool (a bank-time modifier appended it)
C36_Witness ==
    /\ pc = "bank2"
    /\ ~fumble[1]
    /\ Len(round_result[1].insults) >= 1
    /\ Len(round_result[1].insults[1].dice) = Len(round_result[1].bank_trace[1].chosen) + 1
    /\ round_result[1].insults[1].damage
          = SumSeq(round_result[1].bank_trace[1].chosen)
              + round_result[1].insults[1].dice[Len(round_result[1].insults[1].dice)]

\* the two lists hold the same values, each as many times
SameMultiset(a, b) ==
    /\ Len(a) = Len(b)
    /\ \A v \in 1..6 \cup {NoneVal, Blank} : Occurrences(a, v) = Occurrences(b, v)

\* C37: in every pass of the banking loop live_dice and the values of the
\* entries of live_pool are the same multiset, when the pass looks for a
\* combination and after it removed the chosen values, so the length the
\* commit rule tests is the number of pool entries left.
C37_ListsConsistent ==
    [][\A s \in 1..2 :
          BankStep(s) =>
              LET t == round_result'[s].bank_trace
              IN  \A k \in 1..Len(t) :
                      /\ SameMultiset(t[k].dice_before, t[k].pool_before)
                      /\ SameMultiset(t[k].dice_after, t[k].pool_after)
                      /\ Len(t[k].dice_after) = Len(t[k].pool_before) - Len(t[k].chosen)]_vars

\* a banking call made two passes and left entries in the pool; the second
\* pass worked on what the first left, in both lists
C37_Witness ==
    /\ pc = "bank2"
    /\ Len(round_result[1].bank_trace) = 2
    /\ round_result[1].bank_trace[2].dice_before = round_result[1].bank_trace[1].dice_after
    /\ round_result[1].bank_trace[2].dice_after # <<>>
    /\ Len(pool[1]) = Len(round_result[1].bank_trace[2].dice_after)

\* C38: calculate_damage leaves its arguments as they were: the clash step,
\* which calls it once per direction, leaves every banked combination with the
\* same dice in the same order, and when both players banked each direction
\* is the resolver's result for the combinations as they were committed.
C38_ArgumentsUnchanged ==
    [][ClashStep =>
          \A s \in 1..2 :
              /\ round_result'[s].insults = round_result[s].insults
              /\ BothBankedClash =>
                     round_result'[s].damage_to_opponent
                        = BothFlagsFactor(s, 3 - s)
                            * calculate_damage(round_result[s].insults,
                                               round_result[3 - s].insults)]_vars

\* after a clash in which both players banked, a combination whose dice are
\* not in ascending order (sorting it would show) still is as it was banked
C38_Witness ==
    /\ pc = "win_check"
    /\ ~round_result[1].fumbled
    /\ ~round_result[2].fumbled
    /\ \E k \in 1..Len(round_result[1].insults) :
          ~IsAscending(round_result[1].insults[k].dice)
    /\ round_result[1].damage_to_opponent > 0

\* C39: the result of find_combos depends only on the multiset of the values
\* given: for a list of values in 1..6 the call returns what it returns for
\* the same values in ascending order (so every two orders of the same values
\* give the same category label, the same dice in the same order and the same
\* echo bonus).
C39_OrderIndependent ==
    ~HasBlank(cd_values) => cd_combos = find_combos(SortAsc(cd_values))

\* find_combos was called on 3, 3, 3, 2, 2, 2, where the counts dict is filled
\* in the opposite order to the ascending list, and returned the two triplets
\* with the higher one first
C39_Witness ==
    /\ cd_values = <<3, 3, 3, 2, 2, 2>>
    /\ Len(cd_combos) = 1
    /\ cd_combos[1].name = "Surprising"
    /\ cd_combos[1].dice = <<3, 3, 3, 2, 2, 2>>
    /\ cd_combos[1].echo_dice = 1
====
